---- MODULE Spec2Model ----
(***************************************************************************)
(* A model of the GraphQL facade over the TMDB REST API                    *)
(* (lukePeavey/graphql-movie-database):                                    *)
(*   - the detail-field resolvers of Movie/Show/Season/Episode             *)
(*     (src/src/resolvers.js, createMediaObjectResolvers);                 *)
(*   - the V4-token -> V3-session exchange and the shared key/value cache  *)
(*     (src/src/datasources/MovieDatabase.js, convertV4TokenToSessionID);  *)
(*   - the key-case transform (utils/snakeCase.js, utils/camelCase.js);    *)
(*   - the sort-by translation (MovieDatabase.transformSortByInput) and    *)
(*     the data-source methods that emit a REST sort string.               *)
(*   - the mutating operations of both data sources, the resolvers of      *)
(*     Mutation and of the mutation response types;                        *)
(*   - the genres resolver and the response cache of the REST data source. *)
(* Strings that the program transforms are sequences of one-character      *)
(* strings, so that a transform is computed and not assumed.               *)
(***************************************************************************)
EXTENDS Integers, Sequences, FiniteSets, TLC

VARIABLES
  parent,        \* the partially populated media object of one operation
  tasks,         \* the field-resolver invocations on that object
  calls,         \* per invocation: the data-source calls it issued
  context,       \* per request: context.userAccessToken
  sessionId,     \* per request: this.sessionId of its movieDatabaseV3 instance
  keyValueCache, \* module-level cache, shared by all requests: token -> session id
  ops,           \* per request and slot: a V3 operation that needs a session
  issued,        \* upstream: number of session ids issued so far, per token
  keyIn,         \* the key handed to the key-case transform
  keyOut,        \* the transform's result(s) for keyIn
  keyBack,       \* the response-key transform applied to keyOut[1]
  sortReq,       \* the calls of the sort translation and of the list operations
  argsIn,        \* the value handed to the argument normalization
  argCalls,      \* the normalization applied to argsIn: function and result
  body,          \* the JSON body of a REST response
  returned,      \* the data-source operation applied to body: name and value
  genreTask,     \* an invocation of the genres resolver: its parent and progress
  genreCalls,    \* the paths the invocation passed to this.get
  mutation,      \* a mutation (or account read): operation, result, resolved field
  mutationCalls, \* the data-source calls the field resolvers of its response issued
  httpCache,     \* the response cache shared by all requests: URL -> entry
  reads          \* the user-scoped reads made so far and where each response came from

vars == << parent, tasks, calls, context, sessionId, keyValueCache, ops,
           issued, keyIn, keyOut, keyBack, sortReq, argsIn, argCalls,
           body, returned, genreTask, genreCalls, mutation, mutationCalls,
           httpCache, reads >>

resolverVars == << parent, tasks, calls >>
sessionVars  == << context, sessionId, keyValueCache, ops, issued >>
keyVars      == << keyIn, keyOut, keyBack >>
sortVars     == << sortReq >>
jsonVars     == << argsIn, argCalls >>
respVars     == << body, returned >>
genreVars    == << genreTask, genreCalls >>
mutationVars == << mutation, mutationCalls >>
cacheVars    == << httpCache, reads >>

(***************************************************************************)
(* Bounds of the model.                                                    *)
(***************************************************************************)
MaxTasks == 2   \* resolver invocations on the one object

(***************************************************************************)
(* Detail-field resolution: resolvers.js, createMediaObjectResolvers.      *)
(***************************************************************************)
Typenames == {"Movie", "Show", "Season", "Episode"}

\* Sample entity keys (the id, or showId/seasonNumber/episodeNumber).
Ids == {1, 2}

DetailFields == {"credits", "videos", "images", "reviews"}

\* The detail field each resolver asks _getDetailField for.
ResolverField ==
  [cast |-> "credits", crew |-> "credits", videos |-> "videos",
   posters |-> "images", backdrops |-> "images", reviews |-> "reviews"]

\* cast, crew, videos, posters, backdrops for every type; reviews only when
\* /Show|Movie/.test(typename).
ResolversOf(typename) ==
  {"cast", "crew", "videos", "posters", "backdrops"}
    \cup (IF typename \in {"Show", "Movie"} THEN {"reviews"} ELSE {})

\* JavaScript values of a detail field: undefined, null, or an object that
\* either came embedded in the parent or out of a data-source response.
Undefined == [src |-> "undefined", method |-> "", key |-> 0, field |-> ""]
Null == [src |-> "null", method |-> "", key |-> 0, field |-> ""]
Embedded(field) == [src |-> "parent", method |-> "", key |-> 0, field |-> field]
ResponseField(method, key, field) ==
  [src |-> "response", method |-> method, key |-> key, field |-> field]

Truthy(v) == v.src \notin {"undefined", "null"}

\* `if (parent[field]) return parent[field]`
HasField_Never(p, field) == FALSE
HasField(p, field) == Truthy(p.fields[field])

\* movieDatabaseV3[`get${typename}`]
FetcherMethod_Movie(typename) == "getMovie"
FetcherMethod(typename) == "get" \o typename

\* data[field] of the object getMovie/getShow/getSeason/getEpisode resolve to:
\* the single-item response, which carries every appended detail field.
DataField(method, key, field) == ResponseField(method, key, field)

\* The parent after `const data = await ...; return data[field]`: the
\* resolver assigns nothing to parent.
ParentAfterFetch_Stored(p, field, value) == [p EXCEPT !.fields[field] = value]
ParentAfterFetch(p, field, value) == p

\* The error a rejected data-source call rejects with.
FetchError(method, key) == [src |-> "error", method |-> method, key |-> key, field |-> ""]

\* `const data = await movieDatabaseV3[...](parent)` with no try around it:
\* when the call rejects, the resolver rejects with the same error.
OnRejection_Caught(task, error) == [task EXCEPT !.pc = "done", !.result = Null]
OnRejection(task, error) == [task EXCEPT !.pc = "failed", !.result = error]

IdleTask ==
  [pc |-> "idle", name |-> "", field |-> "", seen |-> Undefined,
   after |-> {}, result |-> Undefined]

\* The data-source calls issued by invocation t, in order.
FetchesBy(t) == calls[t]

\* A resolver is invoked on parent: cast/crew/videos/posters/backdrops/reviews
\* call _getDetailField, which runs to its return or to its await.
_getDetailField(t, name) ==
  /\ tasks[t].pc = "idle"
  /\ \A u \in 1..MaxTasks : u < t => tasks[u].pc # "idle"
  /\ name \in ResolversOf(parent.typename)
  /\ LET field == ResolverField[name]
         \* seen and after record what the invocation was given: the value
         \* of the field on parent, and the resolutions completed before it.
         started == [tasks[t] EXCEPT !.name = name, !.field = field,
                       !.seen = parent.fields[field],
                       !.after = {u \in DOMAIN tasks : tasks[u].pc = "done"}]
     IN IF HasField(parent, field)
          THEN /\ tasks' = [tasks EXCEPT ![t] =
                              [started EXCEPT !.pc = "done",
                                              !.result = parent.fields[field]]]
               /\ calls' = calls
          ELSE /\ tasks' = [tasks EXCEPT ![t] = [started EXCEPT !.pc = "awaiting"]]
               /\ calls' = [calls EXCEPT ![t] = Append(calls[t],
                             [method |-> FetcherMethod(parent.typename),
                              key |-> parent.id])]
  /\ UNCHANGED << parent, sessionVars, keyVars, sortVars, jsonVars, respVars, genreVars,
                  mutationVars, cacheVars >>

\* The awaited data-source call settles: it resolves to the item, or rejects.
_getDetailFieldSettled(t, ok) ==
  /\ tasks[t].pc = "awaiting"
  /\ LET c == calls[t][Len(calls[t])]
         value == DataField(c.method, c.key, tasks[t].field)
     IN IF ok
          THEN /\ tasks' = [tasks EXCEPT ![t].pc = "done", ![t].result = value]
               /\ parent' = ParentAfterFetch(parent, tasks[t].field, value)
          ELSE /\ tasks' = [tasks EXCEPT ![t] =
                              OnRejection(tasks[t], FetchError(c.method, c.key))]
               /\ parent' = parent
  /\ UNCHANGED << calls, sessionVars, keyVars, sortVars, jsonVars, respVars, genreVars,
                  mutationVars, cacheVars >>

\* The objects a resolver can be given: each detail field is missing, null
\* or embedded in the object.
Parents ==
  { p \in [typename : Typenames, id : Ids,
           fields : [DetailFields -> {Undefined, Null}
                                       \cup {Embedded(f) : f \in DetailFields}]] :
      \A f \in DetailFields : p.fields[f].src = "parent" => p.fields[f].field = f }

BareParent ==
  [typename |-> "Movie", id |-> 1, fields |-> [f \in DetailFields |-> Undefined]]

ResolverNext ==
  \/ \E t \in 1..MaxTasks, name \in DOMAIN ResolverField : _getDetailField(t, name)
  \/ \E t \in 1..MaxTasks, ok \in BOOLEAN : _getDetailFieldSettled(t, ok)

CallOf(t) == calls[t][1]

\* C1: whenever a resolver is invoked on an entity whose detail field is
\* already present (truthy), it completes at once with exactly that value
\* and issues no data-source call, then or later.
C1_PresentFieldNoCall ==
  \A t \in 1..MaxTasks :
    (tasks[t].pc # "idle" /\ Truthy(tasks[t].seen)) =>
      /\ tasks[t].pc = "done"
      /\ tasks[t].result = tasks[t].seen
      /\ FetchesBy(t) = << >>

\* A resolver found its field on the entity and returned it.
C1_Witness ==
  \E t \in 1..MaxTasks :
    tasks[t].pc = "done" /\ Truthy(tasks[t].seen) /\ tasks[t].result = tasks[t].seen

\* C2: whenever a resolver is invoked on an entity whose detail field is
\* absent or falsy, that invocation issues exactly one call, namely
\* get<Typename> with the entity's key, and when the call resolves it returns
\* the requested field of that response; it never issues a second call.
C2_AbsentFieldOneFetch ==
  \A t \in 1..MaxTasks :
    (tasks[t].pc # "idle" /\ ~Truthy(tasks[t].seen)) =>
      /\ Len(FetchesBy(t)) = 1
      /\ CallOf(t).method = "get" \o parent.typename
      /\ CallOf(t).key = parent.id
      /\ tasks[t].pc = "done" =>
            tasks[t].result =
              ResponseField("get" \o parent.typename, parent.id, ResolverField[tasks[t].name])

\* A resolver of a Show fetched its missing field and returned it.
C2_Witness ==
  \E t \in 1..MaxTasks :
    /\ tasks[t].pc = "done" /\ ~Truthy(tasks[t].seen)
    /\ parent.typename = "Show" /\ tasks[t].result.src = "response"

\* C3 as claimed: once a resolution has fetched a missing field, the entity
\* holds that field, and a later resolution on the same entity that needs
\* the same field issues no call.
C3_CachedInParent ==
  \A t \in 1..MaxTasks :
    (tasks[t].pc = "done" /\ ~Truthy(tasks[t].seen)) =>
      /\ Truthy(parent.fields[tasks[t].field])
      /\ \A u \in 1..MaxTasks :
            (t \in tasks[u].after /\ tasks[u].field = tasks[t].field) => FetchesBy(u) = << >>

\* C3 as amended: the resolver leaves the entity as it was; after a
\* resolution has fetched a missing field the field is still absent on the
\* entity, and a later resolution that needs the same field issues one more
\* get<Typename> call with the same argument.
C3_NotCachedInParent ==
  \A t, u \in 1..MaxTasks :
    ( /\ tasks[t].pc = "done" /\ ~Truthy(tasks[t].seen)
      /\ t \in tasks[u].after /\ tasks[u].field = tasks[t].field ) =>
      /\ ~Truthy(parent.fields[tasks[t].field])
      /\ Len(FetchesBy(u)) = 1
      /\ CallOf(u).method = CallOf(t).method
      /\ CallOf(u).key = CallOf(t).key

\* crew was resolved after cast had fetched the credits of the same entity.
C3_Witness ==
  \E t, u \in 1..MaxTasks :
    /\ tasks[t].pc = "done" /\ ~Truthy(tasks[t].seen)
    /\ t \in tasks[u].after /\ tasks[u].field = tasks[t].field
    /\ tasks[t].name = "cast" /\ tasks[u].name = "crew" /\ tasks[u].pc = "done"

\* C21: when the fetch of a detail-field resolver fails, the resolver fails
\* with that same failure (no value takes its place), the fetch was made
\* once and is not made again, and the entity is as it was.
C21_FetchFailurePropagates ==
  /\ [](\A t \in 1..MaxTasks :
         tasks[t].pc = "failed" =>
           /\ Len(FetchesBy(t)) = 1
           /\ tasks[t].result = [src |-> "error", method |-> CallOf(t).method,
                                  key |-> CallOf(t).key, field |-> ""])
  /\ [][\A t \in 1..MaxTasks :
          /\ tasks[t].pc = "failed" => tasks'[t] = tasks[t] /\ calls'[t] = calls[t]
          /\ (tasks[t].pc = "awaiting" /\ tasks'[t].pc # "awaiting") =>
               /\ parent' = parent
               /\ calls' = calls
               /\ \/ tasks'[t].pc = "done" /\ tasks'[t].result.src = "response"
                  \/ tasks'[t].pc = "failed" /\ tasks'[t].result.src = "error"]_vars

\* A resolver's fetch failed and the resolver failed with its error.
C21_Witness ==
  \E t \in 1..MaxTasks :
    /\ tasks[t].pc = "failed"
    /\ tasks[t].result.src = "error"
    /\ Len(FetchesBy(t)) = 1
    /\ \A f \in DetailFields : ~Truthy(parent.fields[f])

(***************************************************************************)
(* Session exchange: MovieDatabase.js, convertV4TokenToSessionID, and the  *)
(* V3 operations that call it before sending their request.                *)
(***************************************************************************)
NumRequests == 2   \* concurrent GraphQL requests, each with its own data sources
MaxOps == 2        \* session-needing operations resolved within one request
MaxCalls == 3      \* operations started over all requests

Requests == 1..NumRequests
OpSlots == 1..MaxOps

Tokens == {"tokA", "tokB"}
NoToken == ""      \* no authorization header: context.userAccessToken is falsy

\* A session id: undefined, or the n-th session the upstream issued for tok.
NoSession == [tok |-> "", n |-> 0]
Session(tok, n) == [tok |-> tok, n |-> n]
IsSession(s) == s # NoSession

IdleOp ==
  [pc |-> "idle", read |-> NoSession,
   posted |-> 0, sent |-> NoSession, error |-> ""]

\* The key under which a session id is cached: this.context.userAccessToken.
CacheKey_Shared(tok) == "tokA"
CacheKey(tok) == tok

\* `if (!this.sessionId)`: exchange only when the cache had no session id.
NeedsExchange_Always(s) == TRUE
NeedsExchange(s) == ~IsSession(s)

\* willSendRequest, API_VERSION === 3: session_id is set from this.sessionId
\* when it is truthy; NoSession stands for a request without session_id.
WillSendRequest(r) == sessionId[r]

Started == Cardinality({ro \in Requests \X OpSlots : ops[ro[1]][ro[2]].pc # "idle"})

\* A V3 operation that needs a session (getAccount, getAccountStates,
\* updateRating, addToWatchlistOrFavorites) is called and starts with
\* `await this.convertV4TokenToSessionID()`, which runs to its throw or to
\* `await keyValueCache.get(token)`, whose read of the store happens at the call.
convertV4TokenToSessionID(r, i) ==
  /\ ops[r][i].pc = "idle"
  /\ \A j \in OpSlots : j < i => ops[r][j].pc # "idle"
  /\ Started < MaxCalls
  /\ IF context[r] = NoToken
       THEN ops' = [ops EXCEPT ![r][i] =
                      [IdleOp EXCEPT !.pc = "failed", !.error = "No token."]]
       ELSE ops' = [ops EXCEPT ![r][i] =
                      [IdleOp EXCEPT !.pc = "awaitGet",
                                     !.read = keyValueCache[CacheKey(context[r])]]]
  /\ UNCHANGED << context, sessionId, keyValueCache, issued,
                  resolverVars, keyVars, sortVars, jsonVars, respVars, genreVars,
                  mutationVars, cacheVars >>

\* `this.sessionId = <awaited value>`; then either the function returns or it
\* issues the POST (willSendRequest runs inside the call to this.post).
AfterCacheGet(r, i) ==
  /\ ops[r][i].pc = "awaitGet"
  /\ sessionId' = [sessionId EXCEPT ![r] = ops[r][i].read]
  /\ IF NeedsExchange(ops[r][i].read)
       THEN ops' = [ops EXCEPT ![r][i].pc = "awaitPost",
                               ![r][i].posted = ops[r][i].posted + 1]
       ELSE ops' = [ops EXCEPT ![r][i].pc = "converted"]
  /\ UNCHANGED << context, keyValueCache, issued, resolverVars, keyVars, sortVars,
                  jsonVars, respVars, genreVars, mutationVars, cacheVars >>

\* `catch (error) { throw new AuthenticationError('Invalid token.') }`: the
\* call ends with that error; the catch block writes nothing.
OnPostRejected_Swallowed(op) == [op EXCEPT !.pc = "converted"]
OnPostRejected(op) == [op EXCEPT !.pc = "failed", !.error = "Invalid token."]

\* The POST settles. On success the upstream has issued a new session id for
\* the token: `this.sessionId = response.sessionId`, then keyValueCache.set is
\* called (the store is written at the call) and awaited. On failure the catch
\* block throws AuthenticationError('Invalid token.').
AfterPost(r, i, ok) ==
  /\ ops[r][i].pc = "awaitPost"
  /\ IF ok
       THEN LET tok == context[r]
                s == Session(tok, issued[tok] + 1)
            IN /\ issued' = [issued EXCEPT ![tok] = issued[tok] + 1]
               /\ sessionId' = [sessionId EXCEPT ![r] = s]
               /\ keyValueCache' = [keyValueCache EXCEPT ![CacheKey(tok)] = s]
               /\ ops' = [ops EXCEPT ![r][i].pc = "awaitSet"]
       ELSE /\ ops' = [ops EXCEPT ![r][i] = OnPostRejected(ops[r][i])]
            /\ UNCHANGED << issued, sessionId, keyValueCache >>
  /\ UNCHANGED << context, resolverVars, keyVars, sortVars, jsonVars, respVars, genreVars,
                  mutationVars, cacheVars >>

\* `await keyValueCache.set(...)` resumes and the function returns.
AfterCacheSet(r, i) ==
  /\ ops[r][i].pc = "awaitSet"
  /\ ops' = [ops EXCEPT ![r][i].pc = "converted"]
  /\ UNCHANGED << context, sessionId, keyValueCache, issued,
                  resolverVars, keyVars, sortVars, jsonVars, respVars, genreVars,
                  mutationVars, cacheVars >>

\* The caller resumes after `await this.convertV4TokenToSessionID()` and sends
\* its V3 request (this.get / this.post / this.delete): willSendRequest reads
\* this.sessionId at that moment.
SendV3Request(r, i) ==
  /\ ops[r][i].pc = "converted"
  /\ ops' = [ops EXCEPT ![r][i].pc = "sent", ![r][i].sent = WillSendRequest(r)]
  /\ UNCHANGED << context, sessionId, keyValueCache, issued,
                  resolverVars, keyVars, sortVars, jsonVars, respVars, genreVars,
                  mutationVars, cacheVars >>

\* The access tokens the requests carry in their context.
Contexts == [Requests -> Tokens \cup {NoToken}]

NoContext == [r \in Requests |-> NoToken]

SessionNext ==
  \/ \E r \in Requests, i \in OpSlots : convertV4TokenToSessionID(r, i)
  \/ \E r \in Requests, i \in OpSlots : AfterCacheGet(r, i)
  \/ \E r \in Requests, i \in OpSlots, ok \in BOOLEAN : AfterPost(r, i, ok)
  \/ \E r \in Requests, i \in OpSlots : AfterCacheSet(r, i)
  \/ \E r \in Requests, i \in OpSlots : SendV3Request(r, i)

OpsOf(tok) == {ro \in Requests \X OpSlots : context[ro[1]] = tok}

RECURSIVE SumPosted(_)
SumPosted(S) ==
  IF S = {} THEN 0
  ELSE LET ro == CHOOSE x \in S : TRUE
       IN ops[ro[1]][ro[2]].posted + SumPosted(S \ {ro})

\* The number of exchange POSTs issued so far with token tok.
PostsFor(tok) == SumPosted(OpsOf(tok))

\* C4 as claimed: over any run, the exchange POST is issued at most once per
\* distinct user access token.
C4_PostOncePerToken == \A tok \in Tokens : PostsFor(tok) <= 1

\* C4 as amended: a call that finds a session id for its token in the
\* key-value cache issues no POST and completes without failing; only calls
\* that read the cache while it held no session id for the token issue the
\* POST (one each).
C4_CachedTokenNoPost ==
  \A r \in Requests, i \in OpSlots :
    /\ (ops[r][i].pc \notin {"idle", "awaitGet"} /\ IsSession(ops[r][i].read)) =>
         /\ ops[r][i].posted = 0
         /\ ops[r][i].pc \in {"converted", "sent"}
         /\ ops[r][i].read.tok = context[r]
    /\ ops[r][i].posted <= 1

\* A call found the session id in the cache and sent its request.
C4_Witness ==
  \E r \in Requests, i \in OpSlots :
    ops[r][i].pc = "sent" /\ IsSession(ops[r][i].read) /\ ops[r][i].posted = 0

\* The only operation of its request that has been started.
SoleOp(r, i) == \A j \in OpSlots \ {i} : ops[r][j].pc = "idle"

\* C5: with concurrent calls from different requests, in every interleaving
\* the cache maps a token only to a session id issued for that token, each
\* call ends holding (and sending) a session id issued for its own token, and
\* a call issues at most one exchange POST.
C5_ConcurrentRequestsSafe ==
  /\ \A tok \in Tokens :
       IsSession(keyValueCache[tok]) => keyValueCache[tok].tok = tok
  /\ \A r \in Requests, i \in OpSlots :
       /\ (SoleOp(r, i) /\ ops[r][i].pc \in {"awaitSet", "converted", "sent"}) =>
            sessionId[r].tok = context[r]
       /\ (SoleOp(r, i) /\ ops[r][i].pc = "sent") => ops[r][i].sent.tok = context[r]
       /\ ops[r][i].posted <= 1

\* Two requests with the same token raced: both exchanged, both completed.
C5_Witness ==
  \E r1, r2 \in Requests, i1, i2 \in OpSlots :
    /\ r1 # r2 /\ context[r1] = context[r2]
    /\ SoleOp(r1, i1) /\ SoleOp(r2, i2)
    /\ ops[r1][i1].pc = "sent" /\ ops[r2][i2].pc = "sent"
    /\ ops[r1][i1].posted = 1 /\ ops[r2][i2].posted = 1

ExchangeFailedFor(r) ==
  \E q \in Requests, j \in OpSlots :
    /\ context[q] = context[r]
    /\ ops[q][j].pc = "failed" /\ ops[q][j].error = "Invalid token."

\* C30: a failed session exchange leaves the shared state unchanged. Without
\* a token the call fails with 'No token.' before any cache access or POST;
\* when the POST fails the call fails with 'Invalid token.' and nothing is
\* written to the key-value cache; a later call with the same token, finding
\* no session id in the cache, issues the POST again.
C30_FailedExchangeLeavesCache ==
  /\ [](\A r \in Requests, i \in OpSlots :
         /\ (ops[r][i].pc = "failed" /\ context[r] = NoToken) =>
              ops[r][i] = [IdleOp EXCEPT !.pc = "failed", !.error = "No token."]
         /\ (ops[r][i].pc = "failed" /\ context[r] # NoToken) =>
              ops[r][i].error = "Invalid token." /\ ops[r][i].posted = 1)
  /\ [][\A r \in Requests, i \in OpSlots :
          /\ (ops[r][i].pc = "idle" /\ ops'[r][i].pc # "idle"
                /\ context[r] = NoToken) =>
               /\ ops'[r][i].pc = "failed"
               /\ keyValueCache' = keyValueCache /\ issued' = issued
          /\ (ops[r][i].pc = "awaitPost" /\ ops'[r][i] # ops[r][i]) =>
               /\ ops'[r][i].pc \in { "awaitSet", "failed" }
               /\ ops'[r][i].pc = "failed" =>
                    /\ ops'[r][i].error = "Invalid token."
                    /\ keyValueCache' = keyValueCache /\ issued' = issued
          /\ (ops[r][i].pc = "idle" /\ ops'[r][i].pc = "awaitGet"
                /\ ExchangeFailedFor(r)
                /\ ~IsSession(keyValueCache[context[r]])) =>
               ~IsSession(ops'[r][i].read)
          /\ (ops[r][i].pc = "awaitGet" /\ ops'[r][i] # ops[r][i]
                /\ ~IsSession(ops[r][i].read)) =>
               ops'[r][i].pc = "awaitPost" /\ ops'[r][i].posted = 1]_vars

\* A call failed at the exchange, nothing is cached for its token, and a
\* later call of the same request has issued the POST again.
C30_Witness ==
  \E r \in Requests, i, j \in OpSlots :
    /\ i < j
    /\ ops[r][i].pc = "failed" /\ ops[r][i].error = "Invalid token."
    /\ ~IsSession(keyValueCache[context[r]])
    /\ ops[r][j].pc = "awaitPost" /\ ops[r][j].posted = 1

(***************************************************************************)
(* Key-case transform: utils/snakeCase.js (snakeCase) on top of lodash's   *)
(* snakeCase.  A string is a sequence of one-character strings.            *)
(***************************************************************************)
MaxPieces == 3   \* a key is made of at most MaxPieces pieces of KeyPieces
MaxApply == 2    \* successive applications of the transform to one key

LowerSeq ==
  << "a", "b", "c", "d", "e", "f", "g", "h", "i", "j", "k", "l", "m",
     "n", "o", "p", "q", "r", "s", "t", "u", "v", "w", "x", "y", "z" >>
UpperSeq ==
  << "A", "B", "C", "D", "E", "F", "G", "H", "I", "J", "K", "L", "M",
     "N", "O", "P", "Q", "R", "S", "T", "U", "V", "W", "X", "Y", "Z" >>

IsLower(c) == \E i \in DOMAIN LowerSeq : LowerSeq[i] = c
IsUpper(c) == \E i \in DOMAIN UpperSeq : UpperSeq[i] = c
IsLetter(c) == IsLower(c) \/ IsUpper(c)

\* String.prototype.toLowerCase, one character and a whole string.
ToLowerChar(c) ==
  IF IsUpper(c) THEN LowerSeq[CHOOSE i \in DOMAIN UpperSeq : UpperSeq[i] = c] ELSE c
ToLowerCase(str) == [i \in 1..Len(str) |-> ToLowerChar(str[i])]

\* String.prototype.toUpperCase, one character and a whole string.
ToUpperChar(c) ==
  IF IsLower(c) THEN UpperSeq[CHOOSE i \in DOMAIN LowerSeq : LowerSeq[i] = c] ELSE c
ToUpperCase(str) == [i \in 1..Len(str) |-> ToUpperChar(str[i])]

\* Length of the longest prefix of str made of lower-case letters.
LowerRun(str) ==
  CHOOSE n \in 0..Len(str) :
    /\ \A i \in 1..n : IsLower(str[i])
    /\ n = Len(str) \/ ~IsLower(str[n + 1])

\* Length of the longest prefix of str made of upper-case letters.
UpperRun(str) ==
  CHOOSE n \in 0..Len(str) :
    /\ \A i \in 1..n : IsUpper(str[i])
    /\ n = Len(str) \/ ~IsUpper(str[n + 1])

\* lodash words() on letters and separators ('_' and '.' are break
\* characters): a word is a run of lower-case letters, an upper-case letter
\* followed by lower-case letters, or a run of upper-case letters that stops
\* before an upper-case letter that starts the next word.
RECURSIVE Words(_)
Words(str) ==
  IF str = << >> THEN << >>
  ELSE IF IsLower(str[1]) THEN
    LET n == LowerRun(str)
    IN << SubSeq(str, 1, n) >> \o Words(SubSeq(str, n + 1, Len(str)))
  ELSE IF IsUpper(str[1]) THEN
    IF Len(str) >= 2 /\ IsLower(str[2]) THEN
      LET n == 1 + LowerRun(Tail(str))
      IN << SubSeq(str, 1, n) >> \o Words(SubSeq(str, n + 1, Len(str)))
    ELSE
      LET u == UpperRun(str)
          n == IF u < Len(str) /\ IsLower(str[u + 1]) THEN u - 1 ELSE u
      IN << SubSeq(str, 1, n) >> \o Words(SubSeq(str, n + 1, Len(str)))
  ELSE Words(Tail(str))

\* Array.prototype.join
RECURSIVE Join(_, _)
Join(parts, sep) ==
  IF parts = << >> THEN << >>
  ELSE IF Len(parts) = 1 THEN parts[1]
  ELSE parts[1] \o << sep >> \o Join(Tail(parts), sep)

\* String.prototype.split on a one-character separator: the segments between
\* separators, empty ones included.
RECURSIVE Split(_, _)
Split(str, sep) ==
  IF \A i \in 1..Len(str) : str[i] # sep THEN << str >>
  ELSE LET k == CHOOSE i \in 1..Len(str) :
                  str[i] = sep /\ \A j \in 1..(i - 1) : str[j] # sep
       IN << SubSeq(str, 1, k - 1) >> \o Split(SubSeq(str, k + 1, Len(str)), sep)

\* lodash/snakeCase: the words, lower-cased, joined by '_'.
_snakeCase(str) ==
  LET ws == Words(str)
  IN Join([i \in 1..Len(ws) |-> ToLowerCase(ws[i])], "_")

\* The operator alternatives of /_(gte|lte|desc|asc)$/.
RestOps_NoAsc == { << "g", "t", "e" >>, << "l", "t", "e" >>, << "d", "e", "s", "c" >> }
RestOps ==
  { << "g", "t", "e" >>, << "l", "t", "e" >>, << "d", "e", "s", "c" >>,
    << "a", "s", "c" >> }

\* str ends with '_' followed by op.
EndsWithOp(str, op) ==
  /\ Len(str) >= Len(op) + 1
  /\ str[Len(str) - Len(op)] = "_"
  /\ SubSeq(str, Len(str) - Len(op) + 1, Len(str)) = op

\* utils/camelCase.js, deCamelCaseKey (the earlier revision of the transform):
\* key.split('_').map(snakeCase).join('.')
deCamelCaseKey(key) ==
  LET segs == Split(key, "_")
  IN Join([i \in 1..Len(segs) |-> _snakeCase(segs[i])], ".")

\* The earlier revision in the place of the later one.
snakeCase_SplitJoin(str) == deCamelCaseKey(str)

\* utils/snakeCase.js:
\* _snakeCase(str).replace(/_(gte|lte|desc|asc)$/, (_, m) => `.${m}`)
snakeCase(str) ==
  LET s == _snakeCase(str)
  IN IF \E op \in RestOps : EndsWithOp(s, op)
       THEN LET op == CHOOSE o \in RestOps : EndsWithOp(s, o)
            IN SubSeq(s, 1, Len(s) - Len(op) - 1) \o << "." >> \o op
       ELSE s

\* The camelcase package, which camelcase-keys applies to every key.
IsDigit(c) == c \in { "0", "1", "2", "3", "4", "5", "6", "7", "8", "9" }
IsSeparator(c) == c \in { "_", ".", "-", " " }      \* [_.\- ]

\* Length of the longest prefix of str made of separators / of digits.
SeparatorRun(str) ==
  CHOOSE n \in 0..Len(str) :
    /\ \A i \in 1..n : IsSeparator(str[i])
    /\ n = Len(str) \/ ~IsSeparator(str[n + 1])
DigitRun(str) ==
  CHOOSE n \in 0..Len(str) :
    /\ \A i \in 1..n : IsDigit(str[i])
    /\ n = Len(str) \/ ~IsDigit(str[n + 1])

\* preserveCamelCase: the loop over input from index i (1-based) with its
\* three flags; a '-' is put before an upper-case letter that follows a
\* lower-case one, and before the last letter of an upper-case run that a
\* lower-case letter follows.
RECURSIVE preserveCamelCaseFrom(_, _, _, _, _)
preserveCamelCaseFrom(input, i, isLastCharLower, isLastCharUpper, isLastLastCharUpper) ==
  IF i > Len(input) THEN input
  ELSE LET c == input[i]
       IN IF isLastCharLower /\ IsUpper(c)
            THEN preserveCamelCaseFrom(
                   SubSeq(input, 1, i - 1) \o << "-" >> \o SubSeq(input, i, Len(input)),
                   i + 2, FALSE, TRUE, isLastCharUpper)
          ELSE IF isLastCharUpper /\ isLastLastCharUpper /\ IsLower(c)
            THEN preserveCamelCaseFrom(
                   SubSeq(input, 1, i - 2) \o << "-" >> \o SubSeq(input, i - 1, Len(input)),
                   i + 1, TRUE, FALSE, isLastCharUpper)
          ELSE preserveCamelCaseFrom(input, i + 1, IsLower(c), IsUpper(c), isLastCharUpper)
preserveCamelCase(input) == preserveCamelCaseFrom(input, 1, FALSE, FALSE, FALSE)

\* .replace(/^[_.\- ]+/, '')
StripLeadingSeparators(str) == SubSeq(str, SeparatorRun(str) + 1, Len(str))

\* .replace(/[_.\- ]+(\w|$)/g, (_, p1) => p1.toUpperCase())
RECURSIVE UpperAfterSeparators(_)
UpperAfterSeparators(str) ==
  IF str = << >> THEN << >>
  ELSE IF IsSeparator(str[1]) THEN
    LET rest == SubSeq(str, SeparatorRun(str) + 1, Len(str))
    IN IF rest = << >> THEN << >>
       ELSE << ToUpperChar(rest[1]) >> \o UpperAfterSeparators(Tail(rest))
  ELSE << str[1] >> \o UpperAfterSeparators(Tail(str))

\* .replace(/\d+(\w|$)/g, m => m.toUpperCase())
RECURSIVE UpperAfterDigits(_)
UpperAfterDigits(str) ==
  IF str = << >> THEN << >>
  ELSE IF IsDigit(str[1]) THEN
    LET n == DigitRun(str)
        rest == SubSeq(str, n + 1, Len(str))
    IN SubSeq(str, 1, n) \o
         (IF rest = << >> THEN << >>
          ELSE << ToUpperChar(rest[1]) >> \o UpperAfterDigits(Tail(rest)))
  ELSE << str[1] >> \o UpperAfterDigits(Tail(str))

\* camelcase(input) for a string without white space around it
camelCase_LowerCase(input) == ToLowerCase(input)
camelCase(input) ==
  IF Len(input) = 0 THEN << >>
  ELSE IF Len(input) = 1 THEN ToLowerCase(input)
  ELSE LET hasUpperCase == input # ToLowerCase(input)
           preserved == IF hasUpperCase THEN preserveCamelCase(input) ELSE input
       IN UpperAfterDigits(
            UpperAfterSeparators(ToLowerCase(StripLeadingSeparators(preserved))))

\* The pieces sample keys are built from: camelCase and snake_case names,
\* the separators, and the operators in several spellings.
KeyPieces ==
  { << "v", "o", "t", "e", "A", "v", "e", "r", "a", "g", "e" >>,
    << "s", "o", "m", "e" >>,
    << "V", "a", "l", "u", "e" >>,
    << "s", "o", "m", "e", "_", "v", "a", "l", "u", "e" >>,
    << "_" >>, << "." >>,
    << "G", "T", "E" >>, << "g", "t", "e" >>, << "G", "t", "e" >>,
    << "g", "T", "e" >>, << "L", "T", "E" >>,
    << "d", "e", "s", "c" >>, << "A", "S", "C" >> }

RECURSIVE Concat(_)
Concat(parts) == IF parts = << >> THEN << >> ELSE parts[1] \o Concat(Tail(parts))

KeyInputs ==
  UNION { { Concat(ps) : ps \in [1..n -> KeyPieces] } : n \in 1..MaxPieces }

\* The last string of the chain keyIn, snakeCase(keyIn), ...
LastKey == IF keyOut = << >> THEN keyIn ELSE keyOut[Len(keyOut)]

\* The transform is applied, to the key or to its own previous result.
SnakeCaseKey ==
  /\ Len(keyOut) < MaxApply
  /\ keyOut' = Append(keyOut, snakeCase(LastKey))
  /\ UNCHANGED << keyIn, keyBack, resolverVars, sessionVars, sortVars, jsonVars, respVars, genreVars,
                  mutationVars, cacheVars >>

\* A response carries the key the request was given in its REST spelling,
\* and camelCaseKeys turns it into a GraphQL field name.
CamelCaseKey ==
  /\ keyOut # << >>
  /\ keyBack = << >>
  /\ keyBack' = << camelCase(keyOut[1]) >>
  /\ UNCHANGED << keyIn, keyOut, resolverVars, sessionVars, sortVars, jsonVars, respVars, genreVars,
                  mutationVars, cacheVars >>

KeyNext ==
  \/ SnakeCaseKey
  \/ CamelCaseKey


\* The four operators as the REST parameters spell them.
OperatorWords ==
  { << "g", "t", "e" >>, << "l", "t", "e" >>, << "d", "e", "s", "c" >>,
    << "a", "s", "c" >> }


Chars(str) == { str[i] : i \in 1..Len(str) }

\* lower-case words separated by single underscores
IsSnakeCaseKey(k) ==
  /\ k # << >>
  /\ \A i \in 1..Len(k) : IsLower(k[i]) \/ k[i] = "_"
  /\ k[1] # "_" /\ k[Len(k)] # "_"
  /\ \A i \in 1..(Len(k) - 1) : ~(k[i] = "_" /\ k[i + 1] = "_")

\* a name of letters that starts with a lower-case letter
IsCamelCase(b) ==
  /\ b # << >>
  /\ \A i \in 1..Len(b) : IsLetter(b[i])
  /\ IsLower(b[1])

\* a key a GraphQL argument can have: letters and underscores
IsArgumentName(k) ==
  /\ k # << >>
  /\ \A i \in 1..Len(k) : IsLetter(k[i]) \/ k[i] = "_"

\* The part of k before / after its last occurrence of sep.
LastIndexOf(k, sep) ==
  CHOOSE i \in 1..Len(k) : k[i] = sep /\ \A j \in (i + 1)..Len(k) : k[j] # sep
BeforeLast(k, sep) == SubSeq(k, 1, LastIndexOf(k, sep) - 1)
AfterLast(k, sep) ==
  IF sep \in Chars(k) THEN SubSeq(k, LastIndexOf(k, sep) + 1, Len(k)) ELSE k

\* An operator written in lower case, upper case or capitalized.
IsPlainSpelling(op) ==
  \/ op = ToLowerCase(op)
  \/ op = ToUpperCase(op)
  \/ op = << ToUpperChar(op[1]) >> \o ToLowerCase(Tail(op))

\* k with its last '_' replaced by '.'
DotLast(k) == BeforeLast(k, "_") \o << "." >> \o AfterLast(k, "_")

KeyResult == keyOut[1]

\* C7 as claimed: the transform is idempotent, and an already-snake_case
\* key is returned unchanged.
C7_SnakeCaseKeyUnchanged ==
  /\ \A i \in 2..Len(keyOut) : keyOut[i] = keyOut[1]
  /\ (keyOut # << >> /\ IsSnakeCaseKey(keyIn)) => KeyResult = keyIn

\* C7 as amended: applying the transform to its own result gives the same
\* string; a key carrying a dotted operator after a snake_case name is
\* returned unchanged; an already-snake_case key is returned unchanged
\* unless its last word is gte, lte, desc or asc, and then its last
\* underscore becomes a dot.
C7_Idempotent ==
  /\ \A i \in 2..Len(keyOut) : keyOut[i] = keyOut[1]
  /\ (keyOut # << >> /\ IsSnakeCaseKey(keyIn)) =>
       IF "_" \in Chars(keyIn) /\ AfterLast(keyIn, "_") \in OperatorWords
         THEN KeyResult = DotLast(keyIn)
         ELSE KeyResult = keyIn
  /\ ( /\ keyOut # << >>
       /\ "." \in Chars(keyIn)
       /\ IsSnakeCaseKey(BeforeLast(keyIn, "."))
       /\ AfterLast(keyIn, ".") \in OperatorWords ) => KeyResult = keyIn

\* some_value.gte has been transformed twice and came back unchanged.
C7_Witness ==
  /\ keyIn = << "s", "o", "m", "e", "_", "v", "a", "l", "u", "e", ".", "g", "t", "e" >>
  /\ Len(keyOut) = 2
  /\ keyOut[1] = keyIn /\ keyOut[2] = keyIn

\* The snake forms of the non-empty '_'-segments of k, joined with '_'.
SegmentsJoined(k) ==
  LET segs == SelectSeq(Split(k, "_"), LAMBDA g : g # << >>)
  IN Join([i \in 1..Len(segs) |-> _snakeCase(segs[i])], "_")

\* C8 as claimed: b_op with a camelCase b and an operator op in any letter
\* case maps to snake_case(b).lowercase(op); a key whose trailing segment is
\* not an operator has its segments joined with '_' and contains no dot.
C8_OperatorAnyCase ==
  keyOut # << >> =>
    /\ ( /\ "_" \in Chars(keyIn)
         /\ IsCamelCase(BeforeLast(keyIn, "_"))
         /\ ToLowerCase(AfterLast(keyIn, "_")) \in OperatorWords ) =>
           KeyResult = _snakeCase(BeforeLast(keyIn, "_")) \o << "." >>
                         \o ToLowerCase(AfterLast(keyIn, "_"))
    /\ ( /\ IsArgumentName(keyIn)
         /\ ToLowerCase(AfterLast(keyIn, "_")) \notin OperatorWords ) =>
           /\ "." \notin Chars(KeyResult)
           /\ KeyResult = SegmentsJoined(keyIn)

\* C8 as amended: b_op with a camelCase b and an operator op written in
\* lower case, upper case or capitalized maps to
\* snake_case(b).lowercase(op); in a key of letters and underscores the dot
\* appears exactly when the key has at least two words and its last word
\* (words end at underscores and at case boundaries) is an operator;
\* otherwise the lower-cased words are joined with '_' and there is no dot.
C8_OperatorPlainSpelling ==
  keyOut # << >> =>
    /\ ( /\ "_" \in Chars(keyIn)
         /\ IsCamelCase(BeforeLast(keyIn, "_"))
         /\ ToLowerCase(AfterLast(keyIn, "_")) \in OperatorWords
         /\ IsPlainSpelling(AfterLast(keyIn, "_")) ) =>
           KeyResult = _snakeCase(BeforeLast(keyIn, "_")) \o << "." >>
                         \o ToLowerCase(AfterLast(keyIn, "_"))
    /\ IsArgumentName(keyIn) =>
         LET ws == Words(keyIn)
             lower == [i \in 1..Len(ws) |-> ToLowerCase(ws[i])]
         IN IF Len(ws) >= 2 /\ lower[Len(ws)] \in OperatorWords
              THEN KeyResult = Join(SubSeq(lower, 1, Len(ws) - 1), "_")
                                 \o << "." >> \o lower[Len(ws)]
              ELSE /\ KeyResult = Join(lower, "_")
                   /\ "." \notin Chars(KeyResult)

\* voteAverage_GTE has been transformed to vote_average.gte.
C8_Witness ==
  /\ keyIn = << "v", "o", "t", "e", "A", "v", "e", "r", "a", "g", "e", "_", "G", "T", "E" >>
  /\ keyOut # << >>
  /\ KeyResult = << "v", "o", "t", "e", "_", "a", "v", "e", "r", "a", "g", "e", ".", "g", "t", "e" >>

\* lodash camelCase: the words of k, lower-cased, each but the first with
\* its first letter in upper case, put together.
Capitalize(w) == << ToUpperChar(w[1]) >> \o ToLowerCase(Tail(w))
CamelCaseOf(k) ==
  LET ws == Words(k)
  IN Concat([i \in 1..Len(ws) |->
               IF i = 1 THEN ToLowerCase(ws[i]) ELSE Capitalize(ws[i])])

\* k ends with an operator suffix: its last word is one of the operators
\* and is not its only word.
HasOperatorSuffix(k) ==
  LET ws == Words(k)
  IN Len(ws) >= 2 /\ ToLowerCase(ws[Len(ws)]) \in OperatorWords

MaxSortCalls == 1   \* list requests recorded in sortReq

JsNull == << "<null>" >>

\* `${value}` in a template literal
TemplateString(value) == IF value = JsNull THEN << "n", "u", "l", "l" >> ELSE value

DATE_ADDED == << "D", "A", "T", "E", "_", "A", "D", "D", "E", "D" >>
CREATED_AT == << "C", "R", "E", "A", "T", "E", "D", "_", "A", "T" >>
TITLE == << "T", "I", "T", "L", "E" >>
NAME == << "N", "A", "M", "E" >>
RELEASE_DATE == << "R", "E", "L", "E", "A", "S", "E", "_", "D", "A", "T", "E" >>
FIRST_AIR_DATE ==
  << "F", "I", "R", "S", "T", "_", "A", "I", "R", "_", "D", "A", "T", "E" >>
POPULARITY == << "P", "O", "P", "U", "L", "A", "R", "I", "T", "Y" >>
ASC == << "A", "S", "C" >>
DESC == << "D", "E", "S", "C" >>

SortByValues == { DATE_ADDED, TITLE, RELEASE_DATE, POPULARITY }
SortOrderValues == { ASC, DESC }
MediaTypes == { "MOVIE", "TV" }
PageValues == { << "2" >> }
AccountIds == { "acct" }

\* The parameter objects a caller can pass: each of sortBy, sortOrder and
\* page is absent or has one of its values; sortBy and sortOrder may be null.
ParamValues(k) ==
  IF k = "sortBy" THEN SortByValues \cup { JsNull }
  ELSE IF k = "sortOrder" THEN SortOrderValues \cup { JsNull }
  ELSE PageValues
ParamObjects ==
  UNION { { f \in [ks -> SortByValues \cup SortOrderValues \cup PageValues \cup { JsNull }] :
              \A k \in ks : f[k] \in ParamValues(k) } :
          ks \in SUBSET { "sortBy", "sortOrder", "page" } }

\* const substitutions = { DATE_ADDED: ..., TITLE: ..., RELEASE_DATE: ... }
Substitutions_Movie(mediaType) ==
  [ k \in { DATE_ADDED, TITLE, RELEASE_DATE } |->
      IF k = DATE_ADDED THEN CREATED_AT ELSE k ]
Substitutions(mediaType) ==
  [ k \in { DATE_ADDED, TITLE, RELEASE_DATE } |->
      IF k = DATE_ADDED THEN CREATED_AT
      ELSE IF k = TITLE THEN (IF mediaType = "TV" THEN NAME ELSE TITLE)
      ELSE (IF mediaType = "TV" THEN FIRST_AIR_DATE ELSE RELEASE_DATE) ]

\* { ...obj, [key]: value }
With(obj, key, value) ==
  [ k \in DOMAIN obj \cup { key } |-> IF k = key THEN value ELSE obj[k] ]

\* the rest of obj after the keys in taken have been destructured out
Rest_Everything(obj, taken) == obj
Rest(obj, taken) == [ k \in DOMAIN obj \ taken |-> obj[k] ]

\* transformSortByInput(params, mediaType = ''); the string "" stands for
\* an omitted mediaType.
transformSortByInput(params, mediaType) ==
  LET sortByPresent == "sortBy" \in DOMAIN params /\ params["sortBy"] # JsNull
      sortOrder == IF "sortOrder" \in DOMAIN params THEN params["sortOrder"] ELSE DESC
      otherParams == Rest(params, { "sortBy", "sortOrder" })
  IN IF ~sortByPresent THEN otherParams
     ELSE LET sortByValue == params["sortBy"]
              sortBy == IF sortByValue \in DOMAIN Substitutions(mediaType)
                          THEN Substitutions(mediaType)[sortByValue]
                          ELSE sortByValue
          IN With(otherParams, "sortBy",
                  ToLowerCase(TemplateString(sortBy) \o << "." >>
                                \o TemplateString(sortOrder)))

\* One recorded call: the operation, its arguments, and the path and the
\* parameters it passed on (to this.get, or back to its caller).
SortRequest(op, mediaType, params, path, sent) ==
  [ op |-> op, mediaType |-> mediaType, params |-> params, path |-> path,
    sent |-> sent ]

\* The method called on its own, with or without a media type.
TransformSortByInput(params, mediaType) ==
  /\ Len(sortReq) < MaxSortCalls
  /\ sortReq' = Append(sortReq,
       SortRequest("transformSortByInput", mediaType, params, << >>,
                   transformSortByInput(params, mediaType)))
  /\ UNCHANGED << resolverVars, sessionVars, keyVars, jsonVars, respVars, genreVars,
                  mutationVars, cacheVars >>

\* MovieDatabaseV3.discover({ mediaType, page = 1, ...params })
discover(mediaType, args) ==
  /\ Len(sortReq) < MaxSortCalls
  /\ LET page == IF "page" \in DOMAIN args THEN args["page"] ELSE << "1" >>
         params == transformSortByInput(Rest(args, { "page" }), mediaType)
     IN sortReq' = Append(sortReq,
          SortRequest("discover", mediaType, args, << "discover", mediaType >>,
                      [ k \in { "page" } \cup DOMAIN params |->
                          IF k \in DOMAIN params THEN params[k] ELSE page ]))
  /\ UNCHANGED << resolverVars, sessionVars, keyVars, jsonVars, respVars, genreVars,
                  mutationVars, cacheVars >>

\* MovieDatabaseV4.myWatchlist({ accountId, mediaType, ...params })
myWatchlist(accountId, mediaType, args) ==
  /\ Len(sortReq) < MaxSortCalls
  /\ sortReq' = Append(sortReq,
       SortRequest("myWatchlist", mediaType, args,
                   << "account", accountId, mediaType, "watchlist" >>,
                   transformSortByInput(args, "")))
  /\ UNCHANGED << resolverVars, sessionVars, keyVars, jsonVars, respVars, genreVars,
                  mutationVars, cacheVars >>

\* MovieDatabaseV4.myFavorites({ accountId, mediaType, ...params })
myFavorites(accountId, mediaType, args) ==
  /\ Len(sortReq) < MaxSortCalls
  /\ sortReq' = Append(sortReq,
       SortRequest("myFavorites", mediaType, args,
                   << "account", accountId, mediaType, "favorites" >>,
                   transformSortByInput(args, "")))
  /\ UNCHANGED << resolverVars, sessionVars, keyVars, jsonVars, respVars, genreVars,
                  mutationVars, cacheVars >>

\* MovieDatabaseV4.myRatings({ mediaType, accountId, ...params })
myRatings(accountId, mediaType, args) ==
  /\ Len(sortReq) < MaxSortCalls
  /\ sortReq' = Append(sortReq,
       SortRequest("myRatings", mediaType, args,
                   << "account", accountId, mediaType, "rated" >>,
                   transformSortByInput(args, "")))
  /\ UNCHANGED << resolverVars, sessionVars, keyVars, jsonVars, respVars, genreVars,
                  mutationVars, cacheVars >>

\* MovieDatabaseV4.myRecommendations({ mediaType, accountId, ...params })
myRecommendations(accountId, mediaType, args) ==
  /\ Len(sortReq) < MaxSortCalls
  /\ sortReq' = Append(sortReq,
       SortRequest("myRecommendations", mediaType, args,
                   << "account", accountId, mediaType, "recommendations" >>,
                   transformSortByInput(args, "")))
  /\ UNCHANGED << resolverVars, sessionVars, keyVars, jsonVars, respVars, genreVars,
                  mutationVars, cacheVars >>

SortNext ==
  \/ \E params \in ParamObjects, mediaType \in MediaTypes \cup { "" } :
        TransformSortByInput(params, mediaType)
  \/ \E args \in ParamObjects, mediaType \in MediaTypes : discover(mediaType, args)
  \/ \E args \in ParamObjects, mediaType \in MediaTypes, accountId \in AccountIds :
        myWatchlist(accountId, mediaType, args)
  \/ \E args \in ParamObjects, mediaType \in MediaTypes, accountId \in AccountIds :
        myFavorites(accountId, mediaType, args)
  \/ \E args \in ParamObjects, mediaType \in MediaTypes, accountId \in AccountIds :
        myRatings(accountId, mediaType, args)
  \/ \E args \in ParamObjects, mediaType \in MediaTypes, accountId \in AccountIds :
        myRecommendations(accountId, mediaType, args)

\* The REST spelling of each sort field and order.
RestSpelling ==
  [ v \in { DATE_ADDED, CREATED_AT, TITLE, NAME, RELEASE_DATE, FIRST_AIR_DATE,
            POPULARITY, ASC, DESC } |->
      IF v = DATE_ADDED THEN << "d", "a", "t", "e", "_", "a", "d", "d", "e", "d" >>
      ELSE IF v = CREATED_AT THEN << "c", "r", "e", "a", "t", "e", "d", "_", "a", "t" >>
      ELSE IF v = TITLE THEN << "t", "i", "t", "l", "e" >>
      ELSE IF v = NAME THEN << "n", "a", "m", "e" >>
      ELSE IF v = RELEASE_DATE
        THEN << "r", "e", "l", "e", "a", "s", "e", "_", "d", "a", "t", "e" >>
      ELSE IF v = FIRST_AIR_DATE
        THEN << "f", "i", "r", "s", "t", "_", "a", "i", "r", "_", "d", "a", "t", "e" >>
      ELSE IF v = POPULARITY
        THEN << "p", "o", "p", "u", "l", "a", "r", "i", "t", "y" >>
      ELSE IF v = ASC THEN << "a", "s", "c" >>
      ELSE << "d", "e", "s", "c" >> ]

\* The sort field the REST API is to be given for sortBy on mediaType.
SortField(sortBy, mediaType) ==
  IF sortBy = DATE_ADDED THEN CREATED_AT
  ELSE IF sortBy = TITLE /\ mediaType = "TV" THEN NAME
  ELSE IF sortBy = RELEASE_DATE /\ mediaType = "TV" THEN FIRST_AIR_DATE
  ELSE sortBy

RestSort(sortBy, sortOrder, mediaType) ==
  RestSpelling[SortField(sortBy, mediaType)] \o << "." >> \o RestSpelling[sortOrder]

\* A recorded call that carries a sortBy value and a sortOrder of ASC or DESC.
Sorted(req) ==
  /\ "sortBy" \in DOMAIN req.params /\ req.params["sortBy"] \in SortByValues
  /\ "sortOrder" \in DOMAIN req.params /\ req.params["sortOrder"] \in SortOrderValues

\* C9: transformSortByInput, given a sortBy, a sortOrder of ASC or DESC and
\* a mediaType of MOVIE or TV, emits lowercase(s).lowercase(sortOrder) where
\* s is CREATED_AT for DATE_ADDED, NAME for TITLE on TV, FIRST_AIR_DATE for
\* RELEASE_DATE on TV, and sortBy itself otherwise.
C9_SortByTranslation ==
  \A i \in 1..Len(sortReq) :
    LET req == sortReq[i]
    IN ( /\ req.op = "transformSortByInput"
         /\ req.mediaType \in MediaTypes
         /\ Sorted(req) ) =>
           /\ "sortBy" \in DOMAIN req.sent
           /\ req.sent["sortBy"] =
                RestSort(req.params["sortBy"], req.params["sortOrder"], req.mediaType)

\* TITLE, ASC on TV has been translated to name.asc.
C9_Witness ==
  \E i \in 1..Len(sortReq) :
    /\ sortReq[i].op = "transformSortByInput"
    /\ sortReq[i].mediaType = "TV"
    /\ Sorted(sortReq[i])
    /\ sortReq[i].params["sortBy"] = TITLE
    /\ sortReq[i].params["sortOrder"] = ASC
    /\ sortReq[i].sent["sortBy"] = << "n", "a", "m", "e", ".", "a", "s", "c" >>

MediaListOps ==
  { "discover", "myWatchlist", "myFavorites", "myRatings", "myRecommendations" }

\* C10: every media-list operation (discover, watchlist, favorites, ratings,
\* recommendations) whose mediaType is TV sends sortBy RELEASE_DATE as
\* first_air_date.<order> and sortBy TITLE as name.<order>.
C10_MediaTypeSubstitutionOnEveryPath ==
  \A i \in 1..Len(sortReq) :
    LET req == sortReq[i]
    IN ( /\ req.op \in MediaListOps
         /\ req.mediaType = "TV"
         /\ Sorted(req)
         /\ req.params["sortBy"] \in { RELEASE_DATE, TITLE } ) =>
           /\ "sortBy" \in DOMAIN req.sent
           /\ req.sent["sortBy"] =
                RestSort(req.params["sortBy"], req.params["sortOrder"], "TV")

\* A recorded call of transformSortByInput whose sortBy is null or missing.
Unsorted(req) ==
  /\ req.op = "transformSortByInput"
  /\ "sortBy" \in DOMAIN req.params => req.params["sortBy"] = JsNull

\* C11 as claimed: with sortBy absent (null or undefined) the result has no
\* sortBy key and every argument other than sortBy is returned unchanged.
C11_OthersUnchanged ==
  \A i \in 1..Len(sortReq) :
    LET req == sortReq[i]
    IN Unsorted(req) =>
         /\ DOMAIN req.sent = DOMAIN req.params \ { "sortBy" }
         /\ \A k \in DOMAIN req.sent : req.sent[k] = req.params[k]

\* C11 as amended: with sortBy absent (null or undefined) the result has
\* neither a sortBy nor a sortOrder key, and every argument other than
\* sortBy and sortOrder is returned unchanged.
C11_OthersButOrderUnchanged ==
  \A i \in 1..Len(sortReq) :
    LET req == sortReq[i]
    IN Unsorted(req) =>
         /\ DOMAIN req.sent = DOMAIN req.params \ { "sortBy", "sortOrder" }
         /\ \A k \in DOMAIN req.sent : req.sent[k] = req.params[k]

\* A null sortBy with a sortOrder and a page came back as the page alone.
C11_Witness ==
  \E i \in 1..Len(sortReq) :
    /\ Unsorted(sortReq[i])
    /\ DOMAIN sortReq[i].params = { "sortBy", "sortOrder", "page" }
    /\ DOMAIN sortReq[i].sent = { "page" }
    /\ sortReq[i].sent["page"] = sortReq[i].params["page"]

(***************************************************************************)
(* Argument normalization: deCamelCaseArgs (utils/camelCase.js) and        *)
(* snakeCaseKeys (utils/snakeCase.js), which get / post / put apply to     *)
(* the parameters they send.  A JavaScript value is a record: kind, the    *)
(* characters of a string or number, and the entries of an object or the   *)
(* items of an array (items have the empty key).                           *)
(***************************************************************************)
MaxBuild == 3      \* an argument object is built in at most MaxBuild steps

Value(kind, str, items) == [kind |-> kind, str |-> str, items |-> items]
NullValue == Value("null", << >>, << >>)
UndefinedValue == Value("undefined", << >>, << >>)
TypeErrorValue == Value("TypeError", << >>, << >>)   \* the call threw
StringValue(str) == Value("string", str, << >>)
NumberValue(str) == Value("number", str, << >>)
Entry(key, val) == [key |-> key, val |-> val]
ObjectValue(entries) == Value("object", << >>, entries)
ArrayValue(vals) == Value("array", << >>, [i \in 1..Len(vals) |-> Entry(<< >>, vals[i])])

\* lodash isPlainObject, isString
isPlainObject_Never(value) == FALSE
isPlainObject(value) == value.kind = "object"
isString(value) == value.kind = "string"

\* `!value` for the values an argument object can be: null and undefined
Falsy(value) == value.kind \in { "null", "undefined" }

KeysOf(entries) == { entries[i].key : i \in 1..Len(entries) }
ValueAt(entries, key) ==
  entries[CHOOSE i \in 1..Len(entries) : entries[i].key = key].val

\* { ...result, [key]: value }: an existing key keeps its place and takes the
\* new value, a new key is added last.
Spread(result, key, value) ==
  IF key \in KeysOf(result)
    THEN [i \in 1..Len(result) |->
            IF result[i].key = key THEN Entry(key, value) ELSE result[i]]
    ELSE Append(result, Entry(key, value))

\* String.prototype.split on a separator of one or more characters.
RECURSIVE SplitOn(_, _)
SplitOn(str, sep) ==
  LET hits == { i \in 1..(Len(str) - Len(sep) + 1) :
                  SubSeq(str, i, i + Len(sep) - 1) = sep }
  IN IF hits = {} THEN << str >>
     ELSE LET k == CHOOSE i \in hits : \A j \in hits : i <= j
          IN << SubSeq(str, 1, k - 1) >>
               \o SplitOn(SubSeq(str, k + Len(sep), Len(str)), sep)

\* utils/camelCase.js, transformEnumValue:
\* value.split('__').map(snakeCase).join('.')
transformEnumValue_Unchanged(value) == value
transformEnumValue(value) ==
  IF ~isString(value) THEN value
  ELSE LET parts == SplitOn(value.str, << "_", "_" >>)
       IN StringValue(Join([i \in 1..Len(parts) |-> _snakeCase(parts[i])], "."))

sortByKey == << "s", "o", "r", "t", "B", "y" >>

\* utils/camelCase.js, deCamelCaseArgs: Object.entries(args).reduce(...);
\* Object.entries of null or undefined throws a TypeError.
RECURSIVE deCamelCaseArgs(_)
RECURSIVE deCamelCaseEntries(_, _)
deCamelCaseEntries(entries, result) ==
  IF entries = << >> THEN result
  ELSE LET key == entries[1].key
           given == entries[1].val
           value == IF isPlainObject(given) THEN deCamelCaseArgs(given)
                    ELSE IF key = sortByKey THEN transformEnumValue(given)
                    ELSE given
       IN deCamelCaseEntries(Tail(entries),
                             Spread(result, deCamelCaseKey(key), value))
deCamelCaseArgs(args) ==
  IF Falsy(args) THEN NullValue
  ELSE IF args.kind \in { "null", "undefined" } THEN TypeErrorValue
  ELSE ObjectValue(deCamelCaseEntries(args.items, << >>))

\* The earlier utils/camelCase.js: deCamelCase(input) leaves a value that is
\* not a string as it is and splits a string on '_'.
deCamelCase(input) ==
  IF isString(input) THEN StringValue(deCamelCaseKey(input.str)) ELSE input

\* The earlier utils/camelCase.js, deCamelCaseArgs:
\* Object.keys(args).reduce(...), with no test of args before it;
\* Object.keys of null or undefined throws a TypeError.
RECURSIVE deCamelCaseArgs_ObjectKeys(_)
RECURSIVE deCamelCaseKeys(_, _)
deCamelCaseKeys(entries, r) ==
  IF entries = << >> THEN r
  ELSE LET k == entries[1].key
           given == entries[1].val
           nested == IF isPlainObject(given) THEN deCamelCaseArgs_ObjectKeys(given)
                     ELSE given
           value == IF k = sortByKey THEN deCamelCase(nested) ELSE nested
       IN deCamelCaseKeys(Tail(entries), Spread(r, deCamelCaseKey(k), value))
deCamelCaseArgs_ObjectKeys(args) ==
  IF args.kind \in { "null", "undefined" } THEN TypeErrorValue
  ELSE ObjectValue(deCamelCaseKeys(args.items, << >>))

\* utils/snakeCase.js, snakeCaseKeys
RECURSIVE snakeCaseKeys(_)
RECURSIVE snakeCaseEntries(_, _)
snakeCaseEntries(entries, result) ==
  IF entries = << >> THEN result
  ELSE LET key == entries[1].key
           value == entries[1].val
           newValue == IF isPlainObject(value) THEN snakeCaseKeys(value) ELSE value
       IN snakeCaseEntries(Tail(entries), Spread(result, snakeCase(key), newValue))
snakeCaseKeys(obj) ==
  IF Falsy(obj) THEN NullValue
  ELSE IF obj.kind \in { "null", "undefined" } THEN TypeErrorValue
  ELSE ObjectValue(snakeCaseEntries(obj.items, << >>))

\* Sample argument names and values.
pageKey == << "p", "a", "g", "e" >>
voteAverage_GTE ==
  << "v", "o", "t", "e", "A", "v", "e", "r", "a", "g", "e", "_", "G", "T", "E" >>
mediaTypeKey == << "m", "e", "d", "i", "a", "T", "y", "p", "e" >>
filterKey == << "f", "i", "l", "t", "e", "r" >>

ArgKeys == { sortByKey, pageKey, voteAverage_GTE, mediaTypeKey }
NestKeys == { filterKey }

\* RELEASE_DATE__DESC and the other values of a combined sort enum
SortEnum(field, order) == field \o << "_", "_" >> \o order

ArgLeaves ==
  { StringValue(SortEnum(RELEASE_DATE, DESC)),
    NumberValue(<< "2" >>),
    ArrayValue(<< ObjectValue(<< Entry(mediaTypeKey, NumberValue(<< "2" >>)) >>),
                  StringValue(SortEnum(TITLE, ASC)) >>) }

\* The argument objects built in at most n steps: a step adds an entry, or
\* nests the object under a key of a new object.
RECURSIVE ArgsBuilt(_)
ArgsBuilt(n) ==
  IF n = 0 THEN { ObjectValue(<< >>) }
  ELSE LET prev == ArgsBuilt(n - 1)
       IN prev
            \cup { ObjectValue(Append(o.items, Entry(k, v))) :
                     o \in prev, k \in ArgKeys, v \in ArgLeaves }
            \cup { ObjectValue(<< Entry(k, o) >>) : o \in prev, k \in NestKeys }

\* An object has each key once, at every depth.
RECURSIVE DistinctKeys(_)
DistinctKeys(value) ==
  /\ \A i, j \in 1..Len(value.items) :
       value.items[i].key = value.items[j].key => i = j
  /\ \A i \in 1..Len(value.items) :
       value.items[i].val.kind = "object" => DistinctKeys(value.items[i].val)

ArgInputs ==
  { o \in ArgsBuilt(MaxBuild) : DistinctKeys(o) } \cup { NullValue, UndefinedValue }

ArgCall(fn, result) == [fn |-> fn, result |-> result]

\* deCamelCaseArgs is applied to the arguments.
DeCamelCaseArgs ==
  /\ argCalls = << >>
  /\ argCalls' = << ArgCall("deCamelCaseArgs", deCamelCaseArgs(argsIn)) >>
  /\ UNCHANGED << argsIn, resolverVars, sessionVars, keyVars, sortVars,
                  respVars, genreVars, mutationVars, cacheVars >>

\* The earlier deCamelCaseArgs is applied to the arguments.
DeCamelCaseArgs_ObjectKeys ==
  /\ argCalls = << >>
  /\ argCalls' = << ArgCall("deCamelCaseArgs_ObjectKeys",
                             deCamelCaseArgs_ObjectKeys(argsIn)) >>
  /\ UNCHANGED << argsIn, resolverVars, sessionVars, keyVars, sortVars,
                  respVars, genreVars, mutationVars, cacheVars >>

\* snakeCaseKeys is applied to the arguments.
SnakeCaseKeys ==
  /\ argCalls = << >>
  /\ argCalls' = << ArgCall("snakeCaseKeys", snakeCaseKeys(argsIn)) >>
  /\ UNCHANGED << argsIn, resolverVars, sessionVars, keyVars, sortVars,
                  respVars, genreVars, mutationVars, cacheVars >>

\* MovieDatabase.get / post / put: the parameters or the body are passed to
\* the REST data source as snakeCaseKeys leaves them.
Send(method) ==
  /\ argCalls = << >>
  /\ argCalls' = << ArgCall(method, snakeCaseKeys(argsIn)) >>
  /\ UNCHANGED << argsIn, resolverVars, sessionVars, keyVars, sortVars,
                  respVars, genreVars, mutationVars, cacheVars >>

ArgsNext ==
  \/ DeCamelCaseArgs
  \/ DeCamelCaseArgs_ObjectKeys
  \/ SnakeCaseKeys
  \/ \E method \in { "get", "post", "put" } : Send(method)

\* The REST spelling of each sample argument name.
RestKey(key) ==
  IF key = sortByKey THEN << "s", "o", "r", "t", "_", "b", "y" >>
  ELSE IF key = voteAverage_GTE
    THEN << "v", "o", "t", "e", "_", "a", "v", "e", "r", "a", "g", "e", ".", "g", "t", "e" >>
  ELSE IF key = mediaTypeKey THEN << "m", "e", "d", "i", "a", "_", "t", "y", "p", "e" >>
  ELSE key

\* The call recorded in argCalls, and whether it is a call of fn on a mapping.
TheArgCall == argCalls[1]
CalledOnMapping(fns) ==
  argCalls # << >> /\ TheArgCall.fn \in fns /\ argsIn.kind = "object"

release_date_desc ==
  StringValue(RestSpelling[RELEASE_DATE] \o << "." >> \o RestSpelling[DESC])

\* C12: deCamelCaseArgs gives the value of sortBy to the enum transform, so
\* that RELEASE_DATE__DESC becomes release_date.desc under the key sort_by;
\* for every other key whose value is not a mapping the key is transformed
\* and the value is left unchanged.
C12_SortFieldValueTransformed ==
  CalledOnMapping({ "deCamelCaseArgs" }) =>
    /\ TheArgCall.result.kind = "object"
    /\ \A i \in 1..Len(argsIn.items) :
         LET key == argsIn.items[i].key
             value == argsIn.items[i].val
             out == TheArgCall.result.items
         IN /\ RestKey(key) \in KeysOf(out)
            /\ (key = sortByKey /\ value = StringValue(SortEnum(RELEASE_DATE, DESC)))
                 => ValueAt(out, RestKey(key)) = release_date_desc
            /\ (key # sortByKey /\ value.kind # "object")
                 => ValueAt(out, RestKey(key)) = value

\* { sortBy: RELEASE_DATE__DESC, page: 2 } became
\* { sort_by: release_date.desc, page: 2 }.
C12_Witness ==
  /\ CalledOnMapping({ "deCamelCaseArgs" })
  /\ argsIn = ObjectValue(<< Entry(sortByKey, StringValue(SortEnum(RELEASE_DATE, DESC))),
                             Entry(pageKey, NumberValue(<< "2" >>)) >>)
  /\ TheArgCall.result =
       ObjectValue(<< Entry(RestKey(sortByKey), release_date_desc),
                      Entry(pageKey, NumberValue(<< "2" >>)) >>)

\* out is given with every key, at every depth of nested mappings, replaced
\* by its REST key, in the same order, and every other value as it was
\* (enums: the value of sortBy may be the transformed enum instead).
RECURSIVE KeysReplaced(_, _, _)
KeysReplaced(given, out, enums) ==
  /\ out.kind = "object"
  /\ Len(out.items) = Len(given.items)
  /\ \A i \in 1..Len(given.items) :
       LET key == given.items[i].key
           value == given.items[i].val
       IN /\ out.items[i].key = RestKey(key)
          /\ IF value.kind = "object"
               THEN KeysReplaced(value, out.items[i].val, enums)
             ELSE IF enums /\ key = sortByKey /\ value.kind = "string"
               THEN out.items[i].val.kind = "string"
             ELSE out.items[i].val = value

C14_NullTolerated ==
  (argCalls # << >> /\ argsIn \in { NullValue, UndefinedValue })
    => /\ TheArgCall.result # TypeErrorValue
       /\ TheArgCall.result \in { NullValue, ObjectValue(<< >>) }

(***************************************************************************)
(* Responses: parseBody and camelCaseKeys (utils/camelCase.js, which calls *)
(* camelcase-keys with deep: true and an exclude list), the get of the     *)
(* earlier data source MovieDatabaseAPI, which splits a list response into *)
(* results and meta, and the list operations of both data sources.         *)
(***************************************************************************)
MaxItems == 2   \* a results array has at most MaxItems items

\* Keys of the REST responses sampled, as the REST API spells them.
iso_639_1 == << "i", "s", "o", "_", "6", "3", "9", "_", "1" >>
iso_3166_1 == << "i", "s", "o", "_", "3", "1", "6", "6", "_", "1" >>
idKey == << "i", "d" >>
resultsKey == << "r", "e", "s", "u", "l", "t", "s" >>
metaKey == << "m", "e", "t", "a" >>
total_pages == << "t", "o", "t", "a", "l", "_", "p", "a", "g", "e", "s" >>
total_results ==
  << "t", "o", "t", "a", "l", "_", "r", "e", "s", "u", "l", "t", "s" >>
spoken_languages ==
  << "s", "p", "o", "k", "e", "n", "_", "l", "a", "n", "g", "u", "a", "g", "e", "s" >>
english_name ==
  << "e", "n", "g", "l", "i", "s", "h", "_", "n", "a", "m", "e" >>
belongs_to_collection ==
  << "b", "e", "l", "o", "n", "g", "s", "_", "t", "o", "_",
     "c", "o", "l", "l", "e", "c", "t", "i", "o", "n" >>
poster_path == << "p", "o", "s", "t", "e", "r", "_", "p", "a", "t", "h" >>
genre_ids == << "g", "e", "n", "r", "e", "_", "i", "d", "s" >>
vote_average == << "v", "o", "t", "e", "_", "a", "v", "e", "r", "a", "g", "e" >>

\* utils/camelCase.js: const exclude = ['iso_639_1', 'iso_3166_1']
exclude_None == { }
exclude == { iso_639_1, iso_3166_1 }

\* map-obj's isObject: typeof x === 'object' && x !== null
isObject(x) == x.kind \in { "object", "array" }

\* camelcase-keys with { deep: true, exclude }: map-obj gives every entry of
\* an object its new key (an excluded key stays, any other goes through
\* camelcase) and maps the value as well when it is an object or an array;
\* of an array it maps the items that are objects or arrays.
RECURSIVE mapObj(_)
RECURSIVE mapEntries(_, _)
RECURSIVE mapArray(_)
mapEntries(entries, target) ==
  IF entries = << >> THEN target
  ELSE LET key == entries[1].key
           value == entries[1].val
           newKey == IF key \in exclude THEN key ELSE camelCase(key)
           newValue == IF isObject(value) THEN mapObj(value) ELSE value
       IN mapEntries(Tail(entries), Spread(target, newKey, newValue))
mapArray(array) ==
  Value("array", << >>,
        [i \in 1..Len(array.items) |->
           LET x == array.items[i].val
           IN Entry(<< >>, IF isObject(x) THEN mapObj(x) ELSE x)])
mapObj(object) ==
  IF object.kind = "array" THEN mapArray(object)
  ELSE ObjectValue(mapEntries(object.items, << >>))

\* utils/camelCase.js, camelCaseKeys(obj).  camelcase-keys maps each item of
\* a top-level array; map-obj registers its input in a WeakMap, which throws
\* a TypeError for a value that is not an object.
camelCaseKeys(obj) ==
  IF obj.kind = "object" THEN mapObj(obj)
  ELSE IF obj.kind = "array" THEN
    IF \E i \in 1..Len(obj.items) : ~isObject(obj.items[i].val)
      THEN TypeErrorValue
      ELSE Value("array", << >>,
                 [i \in 1..Len(obj.items) |->
                    Entry(<< >>, mapObj(obj.items[i].val))])
  ELSE TypeErrorValue

\* A response: its Content-Type and its body, parsed JSON or text.
NoBody == [contentType |-> "", content |-> UndefinedValue]
JsonBody(json) == [contentType |-> "application/json", content |-> json]
TextBody(text) == [contentType |-> "text/html", content |-> StringValue(text)]
IsJson(response) == response.contentType = "application/json"

\* MovieDatabase.parseBody
parseBody(response) ==
  IF IsJson(response) THEN camelCaseKeys(response.content)
  ELSE response.content

\* JavaScript's ToBoolean and property access
ToBoolean_Defined(value) == value.kind # "undefined"
ToBoolean(value) ==
  CASE value.kind \in { "undefined", "null" } -> FALSE
    [] value.kind \in { "string", "number" } -> value.str \notin { << >>, << "0" >> }
    [] OTHER -> TRUE
Prop(value, key) ==
  IF value.kind = "object" /\ key \in KeysOf(value.items)
    THEN ValueAt(value.items, key)
    ELSE UndefinedValue

\* const { results, ...meta } = response: the entries of response but results
RestEntries_All(entries, taken) == entries
RestEntries(entries, taken) == SelectSeq(entries, LAMBDA en : en.key # taken)

\* MovieDatabaseAPI.get, given what super.get resolves to (the parsed body)
MovieDatabaseAPI_get(response) ==
  LET normalized == camelCaseKeys(response.content)
  IN IF normalized = TypeErrorValue THEN TypeErrorValue
     ELSE IF ~ToBoolean(Prop(normalized, resultsKey)) THEN normalized
     ELSE ObjectValue(<< Entry(resultsKey, Prop(normalized, resultsKey)),
                         Entry(metaKey,
                               ObjectValue(RestEntries(normalized.items, resultsKey))) >>)

\* results.map(item => ({ mediaType: endpoint.slice(1), ...item }))
WithMediaType(item, mediaType) ==
  IF item.kind # "object" THEN ObjectValue(<< Entry(mediaTypeKey, mediaType) >>)
  ELSE ObjectValue(
         << Entry(mediaTypeKey,
                  IF mediaTypeKey \in KeysOf(item.items)
                    THEN ValueAt(item.items, mediaTypeKey) ELSE mediaType) >>
         \o RestEntries(item.items, mediaTypeKey))

\* MovieDatabaseAPI.search(endpoint, params)
MovieDatabaseAPI_search(endpoint, response) ==
  LET got == MovieDatabaseAPI_get(response)
      results == Prop(got, resultsKey)
      meta == Prop(got, metaKey)
  IN IF got = TypeErrorValue THEN TypeErrorValue
     ELSE IF endpoint # << "/", "m", "u", "l", "t", "i" >>
       THEN ObjectValue(<< Entry(resultsKey, results), Entry(metaKey, meta) >>)
     ELSE IF results.kind # "array" THEN TypeErrorValue
     ELSE ObjectValue(
            << Entry(resultsKey,
                     Value("array", << >>,
                           [i \in 1..Len(results.items) |->
                              Entry(<< >>, WithMediaType(results.items[i].val,
                                                         StringValue(Tail(endpoint))))])),
               Entry(metaKey, meta) >>)

\* MovieDatabaseV3.search(endpoint, params): this.get resolves to what
\* parseBody returns.
MovieDatabaseV3_search(response) ==
  LET got == parseBody(response)
  IN IF got = TypeErrorValue THEN TypeErrorValue
     ELSE ObjectValue(<< Entry(resultsKey, Prop(got, resultsKey)),
                         Entry(metaKey, Prop(got, metaKey)) >>)

\* The REST responses sampled: each field is absent or has one of its values.
Num(d) == NumberValue(<< d >>)
ItemValues ==
  { ObjectValue(<< Entry(idKey, Num("5")),
                   Entry(genre_ids, ArrayValue(<< Num("8"), Num("2") >>)) >>),
    ObjectValue(<< Entry(vote_average, Num("7")),
                   Entry(iso_639_1, StringValue(<< "e", "n" >>)) >>) }
ItemArrays == { ArrayValue(is) : is \in UNION { [1..n -> ItemValues] : n \in 0..MaxItems } }

RespFields ==
  << idKey, pageKey, resultsKey, total_pages, total_results,
     spoken_languages, belongs_to_collection >>
RespOptions(key) ==
  IF key = resultsKey THEN ItemArrays \cup { NullValue }
  ELSE IF key = spoken_languages THEN
    { ArrayValue(<< ObjectValue(<< Entry(iso_639_1, StringValue(<< "e", "n" >>)),
                                   Entry(english_name, StringValue(<< "E", "n" >>)) >>) >>) }
  ELSE IF key = belongs_to_collection THEN
    { ObjectValue(<< Entry(poster_path, StringValue(<< "/", "p" >>)),
                     Entry(iso_3166_1, StringValue(<< "U", "S" >>)) >>) }
  ELSE IF key = total_results THEN { Num("9") }
  ELSE IF key = total_pages THEN { Num("2") }
  ELSE { Num("1") }

RECURSIVE EntriesFrom(_)
EntriesFrom(i) ==
  IF i > Len(RespFields) THEN { << >> }
  ELSE LET rests == EntriesFrom(i + 1)
       IN rests \cup { << Entry(RespFields[i], v) >> \o rest :
                         v \in RespOptions(RespFields[i]), rest \in rests }

Bodies ==
  { JsonBody(ObjectValue(entries)) : entries \in EntriesFrom(1) }
    \cup { TextBody(<< "o", "k" >>) }

Returned(op, value) == [op |-> op, value |-> value]

SearchEndpoints ==
  { << "/", "m", "o", "v", "i", "e" >>, << "/", "m", "u", "l", "t", "i" >> }

\* RESTDataSource hands the response to parseBody.
ParseBody ==
  /\ returned = << >>
  /\ returned' = << Returned("parseBody", parseBody(body)) >>
  /\ UNCHANGED << body, resolverVars, sessionVars, keyVars, sortVars, jsonVars,
                  genreVars, mutationVars, cacheVars >>

\* MovieDatabaseV3.search
Search_V3 ==
  /\ returned = << >>
  /\ returned' = << Returned("MovieDatabaseV3.search", MovieDatabaseV3_search(body)) >>
  /\ UNCHANGED << body, resolverVars, sessionVars, keyVars, sortVars, jsonVars,
                  genreVars, mutationVars, cacheVars >>

\* MovieDatabaseV3.discover returns what this.get resolves to.
Discover_V3 ==
  /\ returned = << >>
  /\ returned' = << Returned("MovieDatabaseV3.discover", parseBody(body)) >>
  /\ UNCHANGED << body, resolverVars, sessionVars, keyVars, sortVars, jsonVars,
                  genreVars, mutationVars, cacheVars >>

\* MovieDatabaseAPI.get
Get_API ==
  /\ returned = << >>
  /\ returned' = << Returned("MovieDatabaseAPI.get", MovieDatabaseAPI_get(body)) >>
  /\ UNCHANGED << body, resolverVars, sessionVars, keyVars, sortVars, jsonVars,
                  genreVars, mutationVars, cacheVars >>

\* MovieDatabaseAPI.search
Search_API(endpoint) ==
  /\ returned = << >>
  /\ returned' = << Returned("MovieDatabaseAPI.search",
                             MovieDatabaseAPI_search(endpoint, body)) >>
  /\ UNCHANGED << body, resolverVars, sessionVars, keyVars, sortVars, jsonVars,
                  genreVars, mutationVars, cacheVars >>

\* MovieDatabaseAPI.discover returns what its get resolves to.
Discover_API ==
  /\ returned = << >>
  /\ returned' = << Returned("MovieDatabaseAPI.discover", MovieDatabaseAPI_get(body)) >>
  /\ UNCHANGED << body, resolverVars, sessionVars, keyVars, sortVars, jsonVars,
                  genreVars, mutationVars, cacheVars >>

RespNext ==
  \/ ParseBody
  \/ Search_V3
  \/ Discover_V3
  \/ Get_API
  \/ \E endpoint \in SearchEndpoints : Search_API(endpoint)
  \/ Discover_API


\* The operation recorded in returned, and whether it is one of ops applied
\* to a JSON response.
TheReturn == returned[1]
ReturnedBy(opNames) ==
  returned # << >> /\ TheReturn.op \in opNames /\ IsJson(body)

\* A snake_case key in camelCase: its '_'-separated parts, each but the
\* first with its first letter in upper case, put together.
CamelOfSnake(key) ==
  LET parts == Split(key, "_")
  IN Concat([i \in 1..Len(parts) |->
               IF i = 1 THEN parts[i] ELSE Capitalize(parts[i])])

\* out is given with every key of every mapping in it, inside nested
\* mappings and inside sequences, in camelCase, but for the two ISO keys,
\* which are as they were; every other value is as it was.
RECURSIVE DeepCamelCased(_, _)
DeepCamelCased(given, out) ==
  IF given.kind = "object" THEN
    /\ out.kind = "object"
    /\ Len(out.items) = Len(given.items)
    /\ \A i \in 1..Len(given.items) :
         /\ out.items[i].key =
              IF given.items[i].key \in { iso_639_1, iso_3166_1 }
                THEN given.items[i].key
                ELSE CamelOfSnake(given.items[i].key)
         /\ DeepCamelCased(given.items[i].val, out.items[i].val)
  ELSE IF given.kind = "array" THEN
    /\ out.kind = "array"
    /\ Len(out.items) = Len(given.items)
    /\ \A i \in 1..Len(given.items) :
         DeepCamelCased(given.items[i].val, out.items[i].val)
  ELSE out = given

\* C16: parseBody returns the JSON body with every mapping key at every
\* depth, inside nested mappings and inside sequences, camelCased, except
\* iso_639_1 and iso_3166_1, which stay as they are wherever they occur;
\* the values are unchanged.
C16_DeepCamelCaseButIsoKeys ==
  ReturnedBy({ "parseBody" }) => DeepCamelCased(body.content, TheReturn.value)

\* A body with spoken_languages: [{ iso_639_1, english_name }] and
\* belongs_to_collection: { poster_path, iso_3166_1 } was parsed.
C16_Witness ==
  /\ ReturnedBy({ "parseBody" })
  /\ Prop(body.content, spoken_languages).kind = "array"
  /\ Prop(body.content, belongs_to_collection).kind = "object"
  /\ KeysOf(Prop(TheReturn.value, CamelOfSnake(spoken_languages)).items[1].val.items)
       = { iso_639_1, CamelOfSnake(english_name) }
  /\ KeysOf(Prop(TheReturn.value, CamelOfSnake(belongs_to_collection)).items)
       = { CamelOfSnake(poster_path), iso_3166_1 }

\* The normalized response that MovieDatabaseAPI.get tests and splits.
Normalized == camelCaseKeys(body.content)
HasResultsKey == resultsKey \in KeysOf(Normalized.items)

\* value has exactly the keys results and meta, in this order.
IsEnvelope(value) ==
  /\ value.kind = "object"
  /\ Len(value.items) = 2
  /\ value.items[1].key = resultsKey
  /\ value.items[2].key = metaKey

\* JavaScript takes value for false in a condition.
IsFalsy(value) ==
  \/ value.kind \in { "undefined", "null" }
  \/ value.kind = "number" /\ value.str = << "0" >>
  \/ value.kind = "string" /\ value.str = << >>

\* C17 as claimed: a normalized response without a results key is returned
\* as it is, and every response with a results key, whatever its value, is
\* split into results and meta.
C17_SplitByPresence ==
  ReturnedBy({ "MovieDatabaseAPI.get" }) =>
    IF HasResultsKey THEN IsEnvelope(TheReturn.value)
    ELSE TheReturn.value = Normalized

\* C17 as amended: a normalized response without a results key, or with a
\* results value that JavaScript takes for false (null, undefined, 0, ''),
\* is returned as it is; every other response with a results key, an empty
\* array included, is split into results and meta.
C17_SplitByTruthiness ==
  ReturnedBy({ "MovieDatabaseAPI.get" }) =>
    IF HasResultsKey /\ ~IsFalsy(Prop(Normalized, resultsKey))
      THEN IsEnvelope(TheReturn.value)
      ELSE TheReturn.value = Normalized

\* A response with results: [] was split; its page went into meta.
C17_Witness ==
  /\ ReturnedBy({ "MovieDatabaseAPI.get" })
  /\ Prop(Normalized, resultsKey) = ArrayValue(<< >>)
  /\ pageKey \in KeysOf(Normalized.items)
  /\ IsEnvelope(TheReturn.value)
  /\ Prop(TheReturn.value, resultsKey) = ArrayValue(<< >>)
  /\ pageKey \in KeysOf(Prop(TheReturn.value, metaKey).items)

\* The envelope of a normalized response: its results, and every other
\* entry, in its order, under meta.
EnvelopeOf(response) ==
  ObjectValue(
    << Entry(resultsKey, Prop(response, resultsKey)),
       Entry(metaKey,
             ObjectValue(SelectSeq(response.items, LAMBDA en : en.key # resultsKey))) >>)

\* C18 as claimed: for every response with a results key the output is
\* exactly { results, meta }, results as in the input and meta with every
\* other key of the input and its value.
C18_PartitionWithResultsKey ==
  (ReturnedBy({ "MovieDatabaseAPI.get" }) /\ HasResultsKey)
    => TheReturn.value = EnvelopeOf(Normalized)

\* C18 as amended: for every response whose results value JavaScript does
\* not take for false, the output is exactly { results, meta }, results as
\* in the input and meta with every other key of the input and its value.
C18_PartitionOfListResponse ==
  ( /\ ReturnedBy({ "MovieDatabaseAPI.get" })
    /\ HasResultsKey
    /\ ~IsFalsy(Prop(Normalized, resultsKey)) )
    => TheReturn.value = EnvelopeOf(Normalized)

\* { id, page, results: [item, item], total_pages, total_results } was
\* split: meta is { id, page, totalPages, totalResults }.
C18_Witness ==
  /\ ReturnedBy({ "MovieDatabaseAPI.get" })
  /\ [i \in 1..Len(body.content.items) |-> body.content.items[i].key]
       = << idKey, pageKey, resultsKey, total_pages, total_results >>
  /\ Len(Prop(body.content, resultsKey).items) = 2
  /\ [i \in 1..4 |-> Prop(TheReturn.value, metaKey).items[i].key]
       = << idKey, pageKey, CamelOfSnake(total_pages), CamelOfSnake(total_results) >>
  /\ Len(Prop(TheReturn.value, resultsKey).items) = 2

\* A list response of the REST API: page, results (an array), total_pages
\* and total_results, and nothing else.
IsListResponse ==
  /\ IsJson(body)
  /\ KeysOf(body.content.items) = { pageKey, resultsKey, total_pages, total_results }
  /\ Prop(body.content, resultsKey).kind = "array"

\* item is given camelCased, possibly with a mediaType entry put first.
CamelCasedItem(given, item) ==
  \/ DeepCamelCased(given, item)
  \/ /\ item.kind = "object" /\ item.items # << >>
     /\ item.items[1].key = mediaTypeKey
     /\ DeepCamelCased(given, ObjectValue(Tail(item.items)))

\* C19: every paginated operation returns { results, meta } with meta =
\* { page, totalPages, totalResults } as the REST response has them and the
\* result items camelCased; the value search returns has a meta.
C19_UniformEnvelope ==
  ( /\ returned # << >>
    /\ TheReturn.op \in { "MovieDatabaseV3.search", "MovieDatabaseV3.discover",
                          "MovieDatabaseAPI.search", "MovieDatabaseAPI.discover" }
    /\ IsListResponse )
    => LET out == TheReturn.value
           given == Prop(body.content, resultsKey)
       IN /\ IsEnvelope(out)
          /\ Prop(out, metaKey) =
               ObjectValue(<< Entry(pageKey, Prop(body.content, pageKey)),
                              Entry(CamelOfSnake(total_pages),
                                    Prop(body.content, total_pages)),
                              Entry(CamelOfSnake(total_results),
                                    Prop(body.content, total_results)) >>)
          /\ Prop(out, resultsKey).kind = "array"
          /\ Len(Prop(out, resultsKey).items) = Len(given.items)
          /\ \A i \in 1..Len(given.items) :
               CamelCasedItem(given.items[i].val, Prop(out, resultsKey).items[i].val)

(***************************************************************************)
(* Genres: the genres resolver of Movie and Show (resolvers.js),           *)
(* MovieDatabaseV3.getGenresById / getGenreList, and the getGenres of the  *)
(* earlier data source MovieDatabaseAPI.                                   *)
(***************************************************************************)
MaxIds == 2   \* a parent has at most MaxIds genre ids

nameKey == << "n", "a", "m", "e" >>
Genre(id) == ObjectValue(<< Entry(idKey, Num(id)), Entry(nameKey, StringValue(<< "g", id >>)) >>)

\* The genre list the REST API answers with, and the ids a parent may carry
\* (one of them is in no list).
GenreList == ArrayValue(<< Genre("8"), Genre("2") >>)
GenreIds == { "8", "2", "3" }

GenreParent(typename, genres, genreIds) ==
  [typename |-> typename, genres |-> genres, genreIds |-> genreIds]
NoGenreParent == GenreParent("", UndefinedValue, UndefinedValue)

IdArrays ==
  { ArrayValue([i \in 1..Len(ids) |-> Num(ids[i])]) :
      ids \in UNION { [1..m -> GenreIds] : m \in 0..MaxIds } }

GenreParents ==
  { GenreParent(typename, genres, genreIds) :
      typename \in { "Movie", "Show" },
      genres \in { UndefinedValue, NullValue, ArrayValue(<< >>),
                   ArrayValue(<< Genre("8") >>) },
      genreIds \in IdArrays \cup { UndefinedValue } }

IdleGenreTask(p) ==
  [parent |-> p, pc |-> "idle", op |-> "", result |-> UndefinedValue]

\* The path of a this.get call
GenreListPath(mediaType) == << "genre", mediaType, "list" >>

\* MovieDatabaseV3.getGenresById: the calls of this.get it makes before it
\* waits, one getGenreList(mediaType) whatever ids is.
getGenresById_PerId(mediaType, ids) ==
  [i \in 1..Len(ids.items) |-> GenreListPath(mediaType)]
getGenresById_Calls(mediaType, ids) == << GenreListPath(mediaType) >>

\* genres.find(genre => genre.id === id)
Find(genres, id) ==
  IF \E i \in 1..Len(genres.items) : Prop(genres.items[i].val, idKey) = id
    THEN genres.items[CHOOSE i \in 1..Len(genres.items) :
                        /\ Prop(genres.items[i].val, idKey) = id
                        /\ \A j \in 1..(i - 1) : Prop(genres.items[j].val, idKey) # id].val
    ELSE UndefinedValue

\* ids.map(id => genres.find(...)).filter(genre => genre !== null);
\* ids.map throws when ids is not an array.
getGenresById_Result(genres, ids) ==
  IF ids.kind # "array" THEN TypeErrorValue
  ELSE Value("array", << >>,
             SelectSeq([i \in 1..Len(ids.items) |->
                          Entry(<< >>, Find(genres, ids.items[i].val))],
                       LAMBDA en : en.val # NullValue))

\* mediaObjectResolvers.genres up to its first await: parent.genres is
\* returned when it is truthy, otherwise getGenresById calls getGenreList,
\* which calls this.get.
genres ==
  /\ genreTask.pc = "idle"
  /\ IF ToBoolean(genreTask.parent.genres)
       THEN /\ genreTask' = [genreTask EXCEPT !.pc = "done", !.op = "genres",
                                              !.result = genreTask.parent.genres]
            /\ UNCHANGED genreCalls
       ELSE /\ genreTask' = [genreTask EXCEPT !.pc = "getGenreList", !.op = "genres"]
            /\ genreCalls' = genreCalls \o
                 getGenresById_Calls(genreTask.parent.typename, genreTask.parent.genreIds)
  /\ UNCHANGED << resolverVars, sessionVars, keyVars, sortVars, jsonVars, respVars,
                  mutationVars, cacheVars >>

\* The genre list arrives and getGenresById maps the ids to genres.
getGenresById ==
  /\ genreTask.pc = "getGenreList"
  /\ genreTask' = [genreTask EXCEPT !.pc = "done",
                     !.result = getGenresById_Result(GenreList, genreTask.parent.genreIds)]
  /\ UNCHANGED << genreCalls, resolverVars, sessionVars, keyVars, sortVars, jsonVars,
                  respVars, mutationVars, cacheVars >>

\* MovieDatabaseAPI.getGenreList: /tv|show/i.test(mediaType) ? 'tv' : 'movie'
Endpoint(mediaType) == IF mediaType \in { "Show", "TV", "tv", "show" } THEN "tv" ELSE "movie"

\* MovieDatabaseAPI.getGenres({ mediaType, ids }): ids.map starts one
\* getGenre per id, and each calls getGenreList, which calls this.get.
getGenres ==
  /\ genreTask.pc = "idle"
  /\ LET ids == genreTask.parent.genreIds
     IN IF ids.kind # "array"
          THEN /\ genreTask' = [genreTask EXCEPT !.pc = "done", !.op = "getGenres",
                                                 !.result = TypeErrorValue]
               /\ UNCHANGED genreCalls
          ELSE /\ genreTask' = [genreTask EXCEPT !.pc = "getGenre", !.op = "getGenres"]
               /\ genreCalls' = genreCalls \o
                    [i \in 1..Len(ids.items) |->
                       GenreListPath(Endpoint(genreTask.parent.typename))]
  /\ UNCHANGED << resolverVars, sessionVars, keyVars, sortVars, jsonVars, respVars,
                  mutationVars, cacheVars >>

\* The genre lists arrive and every getGenre finds its genre.
getGenre ==
  /\ genreTask.pc = "getGenre"
  /\ LET ids == genreTask.parent.genreIds
     IN genreTask' =
          [genreTask EXCEPT !.pc = "done",
             !.result = Value("array", << >>,
                              [i \in 1..Len(ids.items) |->
                                 Entry(<< >>, Find(GenreList, ids.items[i].val))])]
  /\ UNCHANGED << genreCalls, resolverVars, sessionVars, keyVars, sortVars, jsonVars,
                  respVars, mutationVars, cacheVars >>

GenreNext ==
  \/ genres
  \/ getGenresById
  \/ getGenres
  \/ getGenre

\* The genres resolver was invoked and has got as far as it gets.
GenresResolved == genreTask.op = "genres" /\ genreTask.pc = "done"

\* C20: the genres resolver, on a parent that has genreIds and no genres,
\* passes exactly one path to this.get, that of the genre list, whatever
\* the number of ids; on a parent that has genres it passes none.
C20_OneGenreListCall ==
  genreTask.op = "genres" =>
    LET p == genreTask.parent
    IN /\ (p.genres.kind \in { "undefined", "null" } /\ p.genreIds.kind = "array")
            => genreCalls = << << "genre", p.typename, "list" >> >>
       /\ p.genres.kind = "array" => genreCalls = << >>

\* A Movie with two genre ids and no genres got its genres, one of them
\* from the list, with one call.
C20_Witness ==
  /\ GenresResolved
  /\ genreTask.parent.typename = "Movie"
  /\ genreTask.parent.genres = UndefinedValue
  /\ genreTask.parent.genreIds = ArrayValue(<< Num("8"), Num("3") >>)
  /\ Len(genreCalls) = 1
  /\ genreTask.result.items[1].val = Genre("8")

(***************************************************************************)
(* Response cache: the HTTP cache of RESTDataSource, which Apollo Server   *)
(* creates once and hands to the data sources of every request, as the     *)
(* user-scoped reads of MovieDatabaseV4 and MovieDatabaseV3 use it.  Every *)
(* read is a GraphQL request of its own, with new data-source instances.   *)
(***************************************************************************)
MaxReads == 3   \* reads over all requests

UserReads == { "checkListItemStatus", "getList", "getAccountStates" }

\* The URL of a request, which is its cache key (RESTDataSource.cacheKeyFor
\* returns request.url): the path with its query, and the session_id that
\* willSendRequest adds to the query of a V3 request.  The access token of a
\* V4 request travels in the authorization header and is not part of it.
Url(path, session) == [path |-> path, session |-> session]
NoUrl == Url("", "")

\* The session id of a token, as the exchange gives it.
SessionOf(token) == token

RequestUrl(op, token) ==
  CASE op = "checkListItemStatus" ->
         Url("list/7/item_status?media_id=550&media_type=movie", "")
    [] op = "getList" -> Url("list/7", "")
    [] op = "getAccountStates" -> Url("movie/550/account_states", SessionOf(token))

Urls == { RequestUrl(op, token) : op \in UserReads, token \in Tokens }

\* MovieDatabase.cacheOptionsFor: { ttl: 10000 } for GET, { ttl: 0 } otherwise.
cacheOptionsFor(method) == IF method = "GET" THEN 10000 ELSE 0

\* The ttl of the cache options of a read: init.cacheOptions when the
\* operation passes one (getList: 0, getAccountStates: 1), cacheOptionsFor
\* otherwise (checkListItemStatus).
TtlOverride(op) ==
  CASE op = "getList" -> 0
    [] op = "getAccountStates" -> 1
    [] OTHER -> cacheOptionsFor("GET")

\* A cache entry: the response stored under a URL, with the token of the
\* request that fetched it.
NoEntry == [stored |-> FALSE, fetchedFor |-> NoToken]
StoredEntry(token) == [stored |-> TRUE, fetchedFor |-> token]

\* HTTPCache.storeResponseAndReturnClone: with a ttl override a successful
\* response is stored under the cache key whatever its headers are.
StoreResponse(cache, url, ttl, ok, token) ==
  IF ttl > 0 /\ ok THEN [cache EXCEPT ![url] = StoredEntry(token)] ELSE cache

\* A user-scoped read by a request with the given token.  getAccountStates
\* first needs a session and fails without a token.  HTTPCache.fetch looks
\* the URL up: an entry within its ttl is returned without a request;
\* otherwise the request is sent with the token and the response is stored
\* as its cache options say.
Read(op, token, ok) ==
  /\ Len(reads) < MaxReads
  /\ IF op = "getAccountStates" /\ token = NoToken
       THEN /\ reads' = Append(reads, [op |-> op, token |-> token, url |-> NoUrl,
                                       from |-> "AuthenticationError",
                                       fetchedFor |-> NoToken])
            /\ UNCHANGED httpCache
       ELSE LET url == RequestUrl(op, token)
            IN IF httpCache[url].stored
                 THEN /\ reads' = Append(reads,
                                    [op |-> op, token |-> token, url |-> url,
                                     from |-> "cache",
                                     fetchedFor |-> httpCache[url].fetchedFor])
                      /\ UNCHANGED httpCache
                 ELSE /\ reads' = Append(reads,
                                    [op |-> op, token |-> token, url |-> url,
                                     from |-> IF ok THEN "upstream" ELSE "error",
                                     fetchedFor |-> token])
                      /\ httpCache' = StoreResponse(httpCache, url, TtlOverride(op),
                                                    ok, token)
  /\ UNCHANGED << resolverVars, sessionVars, keyVars, sortVars, jsonVars,
                  respVars, genreVars, mutationVars >>

\* The ttl of an entry runs out and the store drops it.
Expire(url) ==
  /\ httpCache[url].stored
  /\ httpCache' = [httpCache EXCEPT ![url] = NoEntry]
  /\ UNCHANGED << reads, resolverVars, sessionVars, keyVars, sortVars, jsonVars,
                  respVars, genreVars, mutationVars >>

CacheNext ==
  \/ \E op \in UserReads, token \in Tokens \cup { NoToken }, ok \in BOOLEAN :
       Read(op, token, ok)
  \/ \E url \in Urls : Expire(url)

\* C27: a response fetched while one user access token was in the request
\* context is never returned from the cache to a request that carries a
\* different token or none, for every user-scoped read.
C27_NotSharedBetweenUsers ==
  \A i \in 1..Len(reads) :
    (reads[i].from = "cache" /\ reads[i].fetchedFor \in Tokens) =>
      reads[i].fetchedFor = reads[i].token

\* The characters of a path segment.
SegmentChars(segment) ==
  CASE segment = "genre" -> << "g", "e", "n", "r", "e" >>
    [] segment = "list" -> << "l", "i", "s", "t" >>
    [] segment = "Movie" -> << "M", "o", "v", "i", "e" >>
    [] segment = "Show" -> << "S", "h", "o", "w" >>
    [] segment = "movie" -> << "m", "o", "v", "i", "e" >>
    [] segment = "tv" -> << "t", "v" >>

\* MovieDatabase.resolveURL: path.replace(/^\//, '').toLowerCase(), resolved
\* against the base URL; the segments of the requested URL after the base.
resolveURL(path) == [i \in 1..Len(path) |-> ToLowerCase(SegmentChars(path[i]))]

\* The genre list of a media type in the REST API: genre/movie/list for
\* movies, genre/tv/list for TV shows.
GenreListURL(typename) ==
  << SegmentChars("genre"),
     IF typename = "Show" THEN SegmentChars("tv") ELSE SegmentChars("movie"),
     SegmentChars("list") >>

\* C28: the genre list requested by the genres resolver is the one of the
\* entity's media type in the REST API's vocabulary: genre/movie/list for a
\* Movie and genre/tv/list for a Show.
C28_GenreListOfMediaType ==
  (genreTask.op = "genres" /\ genreCalls # << >>) =>
    \A i \in 1..Len(genreCalls) :
      resolveURL(genreCalls[i]) = GenreListURL(genreTask.parent.typename)

\* The values a list of genres may hold: the genres of the genre list.
IsGenre(value) == \E i \in 1..Len(GenreList.items) : GenreList.items[i].val = value

\* The genres of the genre list whose id is in ids, in the order of ids.
GenresOf(ids) ==
  SelectSeq([i \in 1..Len(ids.items) |-> Entry(<< >>, Find(GenreList, ids.items[i].val))],
            LAMBDA en : IsGenre(en.val))

\* C29: getGenresById returns only genres: each element of its result is a
\* genre of the genre list whose id is in ids, in the order of ids, and an id
\* with no matching genre contributes no element (no null or undefined entry).
C29_OnlyGenres ==
  (GenresResolved /\ genreTask.parent.genreIds.kind = "array"
     /\ ~ToBoolean(genreTask.parent.genres)) =>
    /\ genreTask.result.kind = "array"
    /\ genreTask.result.items = GenresOf(genreTask.parent.genreIds)

\* The state after construction: nothing resolved, no session exchanged, no
\* key transformed, no list requested.  Each specification draws the inputs
\* of the part it exercises and leaves the other parts without input.
(***************************************************************************)
(* Mutations: the mutating operations of MovieDatabaseV4 (lists) and       *)
(* MovieDatabaseV3 (watchlist, favorites, rating), the account reads that  *)
(* need a session, the Mutation resolvers that return their results, and   *)
(* the field resolvers of the mutation response types (resolvers.js).      *)
(* One operation runs per behaviour: the upstream's answer is an input.    *)
(***************************************************************************)
Absent == "absent"   \* a property the object does not have: reads undefined

\* `!!v` for a property value: a boolean, an id, a message or undefined.
Bool(v) == v \notin { Absent, "false", "" }

ListMutations ==
  { "createList", "updateList", "deleteList", "clearListItems", "addListItems",
    "removeListItems" }
AccountMutations == { "addToWatchlist", "addToFavorites", "updateRating" }
AccountReads == { "getAccount", "getAccountStates" }

MOVIE == << "M", "O", "V", "I", "E" >>
TV == << "T", "V" >>
ItemMediaTypes == { MOVIE, TV }
NoItem == [mediaType |-> << >>, id |-> Absent]
Item(mediaType, id) == [mediaType |-> mediaType, id |-> id]

\* What the REST call of an operation does: it raises (error.message, and the
\* status message of the error's response body when there is one), or it
\* returns the parsed reply.
Raised(message, statusMessage) ==
  [raised |-> TRUE, success |-> Absent, message |-> message,
   statusMessage |-> statusMessage, id |-> Absent]
Reply(success, id) ==
  [raised |-> FALSE, success |-> success, message |-> Absent,
   statusMessage |-> "Success.", id |-> id]

\* What an operation or a resolver produces: undefined, an object (its
\* success, message, id, item and input properties) or a thrown error.
UndefinedResult ==
  [kind |-> "undefined", class |-> "", success |-> Absent, message |-> Absent,
   id |-> Absent, item |-> NoItem, input |-> NoItem]
ResultObject(success, message, id) ==
  [UndefinedResult EXCEPT !.kind = "object", !.success = success,
                          !.message = message, !.id = id]
Thrown(class, message) ==
  [UndefinedResult EXCEPT !.kind = "error", !.class = class, !.message = message]

SuccessMessage(op) ==
  CASE op = "createList" -> "List was created successfully."
    [] op = "updateList" -> "List was updated successfully."
    [] op = "deleteList" -> "List was deleted successfully."
    [] op = "clearListItems" -> "List items were cleared successfully."
    [] op = "addListItems" -> "List items added."
    [] op = "removeListItems" -> "List items removed."

\* MovieDatabaseV4.createList, updateList, deleteList, clearListItems,
\* addListItems, removeListItems: the six bodies differ in the request and in
\* the message only.
\*   try { const response = await this.<method>(...)
\*         if (response.success) return { ...response, message } }
\*   catch (error) { return { success: false, message: error.message } }
MovieDatabaseV4_listMutation(op, upstream) ==
  IF upstream.raised
    THEN ResultObject("false", upstream.message, Absent)
    ELSE IF Bool(upstream.success)
           THEN ResultObject(upstream.success, SuccessMessage(op), upstream.id)
           ELSE UndefinedResult

AuthenticationError(message) == Thrown("AuthenticationError", message)

\* convertV4TokenToSessionID as its caller sees it: it throws without a
\* token, it throws when the cache read or the exchange fails, and it
\* returns otherwise (accepted: the cache held a session id or the POST
\* succeeded).
SessionExchange(token, accepted) ==
  IF token = NoToken THEN AuthenticationError("No token.")
  ELSE IF ~accepted THEN AuthenticationError("Invalid token.")
  ELSE UndefinedResult

\* RESTDataSource rejects with an ApolloError for a failed upstream call.
UpstreamError(upstream) == Thrown("ApolloError", upstream.message)

\* MovieDatabaseV3.addToWatchlistOrFavorites: the whole body is in the try
\* block; the catch returns { message: error.message }.
addToWatchlistOrFavorites_Uncaught(token, accepted, upstream) ==
  LET auth == SessionExchange(token, accepted)
  IN IF auth.kind = "error" THEN auth
     ELSE IF upstream.raised THEN UpstreamError(upstream)
     ELSE ResultObject("true", upstream.statusMessage, Absent)
addToWatchlistOrFavorites(token, accepted, upstream) ==
  LET auth == SessionExchange(token, accepted)
  IN IF auth.kind = "error" THEN ResultObject(Absent, auth.message, Absent)
     ELSE IF upstream.raised THEN ResultObject(Absent, upstream.message, Absent)
     ELSE ResultObject("true", upstream.statusMessage, Absent)

\* MovieDatabaseV3.updateRating: as above, and the catch prefers the status
\* message of the error's response body (an AuthenticationError has none).
updateRating(token, accepted, upstream) ==
  LET auth == SessionExchange(token, accepted)
  IN IF auth.kind = "error" THEN ResultObject(Absent, auth.message, Absent)
     ELSE IF upstream.raised
            THEN ResultObject(Absent,
                              IF Bool(upstream.statusMessage)
                                THEN upstream.statusMessage ELSE upstream.message,
                              Absent)
     ELSE ResultObject("true", upstream.statusMessage, Absent)

\* MovieDatabaseV3.getAccount and getAccountStates: no try block.
\*   await this.convertV4TokenToSessionID(); return this.get(...)
getAccount_Caught(token, accepted, upstream) ==
  LET auth == SessionExchange(token, accepted)
  IN IF auth.kind = "error" THEN ResultObject(Absent, auth.message, Absent)
     ELSE IF upstream.raised THEN UpstreamError(upstream)
     ELSE ResultObject(Absent, Absent, upstream.id)
getAccount(token, accepted, upstream) ==
  LET auth == SessionExchange(token, accepted)
  IN IF auth.kind = "error" THEN auth
     ELSE IF upstream.raised THEN UpstreamError(upstream)
     ELSE ResultObject(Absent, Absent, upstream.id)
getAccountStates(token, accepted, upstream) ==
  LET auth == SessionExchange(token, accepted)
  IN IF auth.kind = "error" THEN auth
     ELSE IF upstream.raised THEN UpstreamError(upstream)
     ELSE ResultObject(Absent, Absent, upstream.id)

\* `{ id, ...response }`: spreading undefined adds nothing, and a property of
\* the response replaces the one written before it.
WithId(id, response) ==
  IF response.kind = "undefined" THEN ResultObject(Absent, Absent, id)
  ELSE IF response.id = Absent THEN [response EXCEPT !.id = id]
  ELSE response

\* The resolvers of Mutation: createList, deleteList and clearListItems return
\* the data source's promise; updateList, addListItems and removeListItems
\* return { id, ...response }; addToWatchlist and addToFavorites return
\* { ...response, ...args } (args has item); submitUserRating returns
\* { ...response, input }.
Mutation(op, id, item, response) ==
  CASE op \in { "createList", "deleteList", "clearListItems" } -> response
    [] op \in { "updateList", "addListItems", "removeListItems" } ->
         WithId(id, response)
    [] op \in { "addToWatchlist", "addToFavorites" } ->
         [response EXCEPT !.item = item]
    [] op = "updateRating" -> [response EXCEPT !.input = item]
    [] OTHER -> response

\* The response type of a mutation, as the comments of the resolvers name it.
ResponseType(op) ==
  CASE op \in { "createList", "updateList", "deleteList", "clearListItems" } ->
         "ListMutationResponse"
    [] op \in { "addListItems", "removeListItems" } -> "ListItemsMutationResponse"
    [] op = "addToWatchlist" -> "WatchlistMutationResponse"
    [] op = "addToFavorites" -> "FavoriteMutationResponse"
    [] op = "updateRating" -> "RatingMutationResponse"
    [] OTHER -> "Account"

\* transforms.toTypename:
\*   /^(tv)$/i.test(mediaType) ? 'Show' : capitalize(mediaType)
toTypename(mediaType) ==
  IF ToLowerCase(mediaType) = << "t", "v" >>
    THEN << "S", "h", "o", "w" >>
    ELSE Capitalize(mediaType)

\* The methods of MovieDatabaseV3 that fetch one object by id.
getMovieName == << "g", "e", "t", "M", "o", "v", "i", "e" >>
getShowName == << "g", "e", "t", "S", "h", "o", "w" >>
getPersonName == << "g", "e", "t", "P", "e", "r", "s", "o", "n" >>
V3Methods == { getMovieName, getShowName, getPersonName }

\* What resolving a field gives: its value and the data-source calls issued.
FieldValue(value) == [value |-> value, calls |-> << >>]
DataSourceCall(source, method, id) ==
  [value |-> "promise",
   calls |-> << [source |-> source, method |-> method, id |-> id] >>]

\* movieDatabaseV3[name]({ id }): calling a property that is not a method
\* throws a TypeError.
CallV3(name, id) ==
  IF name \in V3Methods THEN DataSourceCall("movieDatabaseV3", name, id)
  ELSE FieldValue("TypeError")

getListName == << "g", "e", "t", "L", "i", "s", "t" >>

\* success: ({ success }) => !!success
success(p) == FieldValue(IF Bool(p.success) THEN "true" ELSE "false")

\* ListMutationResponse.list: if (id && success) getList
ListMutationResponse_list(p) ==
  IF Bool(p.id) /\ Bool(p.success)
    THEN DataSourceCall("movieDatabaseV4", getListName, p.id)
    ELSE FieldValue("undefined")

\* ListItemsMutationResponse.list: if (id && success !== false) getList
ListItemsMutationResponse_list(p) ==
  IF Bool(p.id) /\ p.success # "false"
    THEN DataSourceCall("movieDatabaseV4", getListName, p.id)
    ELSE FieldValue("undefined")

\* WatchlistMutationResponse.media:
\*   movieDatabaseV3[`get${transforms.toTypename(mediaType)}`]({ id })
WatchlistMutationResponse_media(p) ==
  IF ~Bool(p.success) THEN FieldValue("null")
  ELSE CallV3(<< "g", "e", "t" >> \o toTypename(p.item.mediaType), p.item.id)

\* FavoriteMutationResponse.media:
\*   movieDatabaseV3[`get${transforms.toTypename(mediaType)}}`]({ id })
FavoriteMutationResponse_media(p) ==
  IF ~Bool(p.success) THEN FieldValue("null")
  ELSE CallV3(<< "g", "e", "t" >> \o toTypename(p.item.mediaType) \o << "}" >>,
              p.item.id)

\* RatingMutationResponse.media: as WatchlistMutationResponse.media, on input.
RatingMutationResponse_media(p) ==
  IF ~Bool(p.success) THEN FieldValue("null")
  ELSE CallV3(<< "g", "e", "t" >> \o toTypename(p.input.mediaType), p.input.id)

ResolveFieldOf(typename, field, p) ==
  CASE field = "success" -> success(p)
    [] field = "list" /\ typename = "ListMutationResponse" ->
         ListMutationResponse_list(p)
    [] field = "list" /\ typename = "ListItemsMutationResponse" ->
         ListItemsMutationResponse_list(p)
    [] field = "media" /\ typename = "WatchlistMutationResponse" ->
         WatchlistMutationResponse_media(p)
    [] field = "media" /\ typename = "FavoriteMutationResponse" ->
         FavoriteMutationResponse_media(p)
    [] field = "media" /\ typename = "RatingMutationResponse" ->
         RatingMutationResponse_media(p)

FieldsOf(typename) ==
  CASE typename \in { "ListMutationResponse", "ListItemsMutationResponse" } ->
         { "success", "list" }
    [] typename \in { "WatchlistMutationResponse", "FavoriteMutationResponse",
                      "RatingMutationResponse" } -> { "success", "media" }
    [] OTHER -> {}

ListIds == { "7", "8" }
MediaIds == { "550", "1399" }
ListUpstreams(op) ==
  LET id == IF op = "createList" THEN "9" ELSE Absent
  IN { Raised("500: Internal Server Error", Absent),
       Reply("true", id), Reply("false", id), Reply(Absent, id) }
AccountUpstreams ==
  { Raised("404: Not Found", "The resource could not be found."),
    Raised("request failed", Absent), Reply("true", Absent) }

IdleMutation ==
  [pc |-> "idle", op |-> "", token |-> NoToken, accepted |-> FALSE,
   upstream |-> Reply(Absent, Absent), result |-> UndefinedResult,
   payload |-> UndefinedResult, field |-> "", value |-> ""]

\* A list mutation of MovieDatabaseV4 and the Mutation resolver that calls it.
ListMutation(op, id, upstream) ==
  /\ mutation.pc = "idle"
  /\ LET result == MovieDatabaseV4_listMutation(op, upstream)
     IN mutation' = [IdleMutation EXCEPT
                       !.pc = "returned", !.op = op, !.upstream = upstream,
                       !.result = result,
                       !.payload = Mutation(op, id, NoItem, result)]
  /\ UNCHANGED << mutationCalls, resolverVars, sessionVars, keyVars, sortVars,
                  jsonVars, respVars, genreVars, cacheVars >>

\* addToWatchlist, addToFavorites or updateRating of MovieDatabaseV3 and the
\* Mutation resolver that calls it.
AccountMutation(op, token, accepted, item, upstream) ==
  /\ mutation.pc = "idle"
  /\ LET result == IF op = "updateRating"
                     THEN updateRating(token, accepted, upstream)
                     ELSE addToWatchlistOrFavorites(token, accepted, upstream)
     IN mutation' = [IdleMutation EXCEPT
                       !.pc = "returned", !.op = op, !.token = token,
                       !.accepted = accepted, !.upstream = upstream,
                       !.result = result,
                       !.payload = Mutation(op, Absent, item, result)]
  /\ UNCHANGED << mutationCalls, resolverVars, sessionVars, keyVars, sortVars,
                  jsonVars, respVars, genreVars, cacheVars >>

\* getAccount or getAccountStates of MovieDatabaseV3; their resolvers return
\* the data source's promise.
AccountRead(op, token, accepted, upstream) ==
  /\ mutation.pc = "idle"
  /\ LET result == IF op = "getAccount"
                     THEN getAccount(token, accepted, upstream)
                     ELSE getAccountStates(token, accepted, upstream)
     IN mutation' = [IdleMutation EXCEPT
                       !.pc = "returned", !.op = op, !.token = token,
                       !.accepted = accepted, !.upstream = upstream,
                       !.result = result, !.payload = result]
  /\ UNCHANGED << mutationCalls, resolverVars, sessionVars, keyVars, sortVars,
                  jsonVars, respVars, genreVars, cacheVars >>

\* The execution resolves one field of the object a mutation returned.
ResolveField(field) ==
  /\ mutation.pc = "returned"
  /\ mutation.payload.kind = "object"
  /\ field \in FieldsOf(ResponseType(mutation.op))
  /\ LET r == ResolveFieldOf(ResponseType(mutation.op), field, mutation.payload)
     IN /\ mutation' = [mutation EXCEPT !.pc = "resolved", !.field = field,
                                        !.value = r.value]
        /\ mutationCalls' = mutationCalls \o r.calls
  /\ UNCHANGED << resolverVars, sessionVars, keyVars, sortVars, jsonVars,
                  respVars, genreVars, cacheVars >>

MutationNext ==
  \/ \E op \in ListMutations, id \in ListIds :
       \E upstream \in ListUpstreams(op) : ListMutation(op, id, upstream)
  \/ \E op \in AccountMutations, token \in Tokens \cup { NoToken },
        accepted \in BOOLEAN, mediaType \in ItemMediaTypes, id \in MediaIds,
        upstream \in AccountUpstreams :
       AccountMutation(op, token, accepted, Item(mediaType, id), upstream)
  \/ \E op \in AccountReads, token \in Tokens \cup { NoToken },
        accepted \in BOOLEAN, upstream \in AccountUpstreams :
       AccountRead(op, token, accepted, upstream)
  \/ \E field \in { "success", "list", "media" } : ResolveField(field)

\* The operation ran and its REST call failed (for an operation of
\* MovieDatabaseV3: after the session exchange had succeeded).
UpstreamFailed ==
  /\ mutation.pc # "idle"
  /\ mutation.upstream.raised
  /\ mutation.op \in AccountMutations =>
       mutation.token # NoToken /\ mutation.accepted

\* C22 as claimed: a mutating data-source operation never raises on an
\* upstream failure; whenever the upstream call fails it returns a result
\* object with success = false and a message.
C22_FailureReturnsSuccessFalse ==
  (UpstreamFailed /\ mutation.op \in ListMutations \cup AccountMutations) =>
    /\ mutation.result.kind = "object"
    /\ mutation.result.success = "false"
    /\ Bool(mutation.result.message)

\* C22 as amended: whenever the upstream call fails, the operation returns
\* (it does not raise) an object with the failure's message whose success is
\* false for the list operations of MovieDatabaseV4 and absent for
\* addToWatchlist, addToFavorites and updateRating; the success field
\* resolver turns both into false.
C22_FailureReturnsMessage ==
  (UpstreamFailed /\ mutation.op \in ListMutations \cup AccountMutations) =>
    /\ mutation.result.kind = "object"
    /\ mutation.result.message \in
         { mutation.upstream.message, mutation.upstream.statusMessage } \ { Absent }
    /\ mutation.op \in ListMutations => mutation.result.success = "false"
    /\ mutation.op \in AccountMutations => mutation.result.success = Absent
    /\ (mutation.pc = "resolved" /\ mutation.field = "success") =>
         mutation.value = "false"

\* The REST call of an operation of MovieDatabaseV3 failed after a successful
\* exchange, and the success field of the response was resolved.
C22_Witness ==
  /\ UpstreamFailed
  /\ mutation.op \in AccountMutations
  /\ mutation.result.success = Absent
  /\ mutation.pc = "resolved" /\ mutation.field = "success"

\* C25: every list mutation of MovieDatabaseV4 returns an object with a
\* boolean success on every path, the path where the upstream replies without
\* raising but with a falsy success included; it never returns undefined.
C25_AlwaysResultObject ==
  (mutation.pc # "idle" /\ mutation.op \in ListMutations) =>
    /\ mutation.result.kind = "object"
    /\ mutation.result.success \in { "true", "false" }

\* The operation needs a session and the exchange failed: the request has no
\* user access token, or the token was rejected.
AuthenticationFailed ==
  /\ mutation.pc # "idle"
  /\ mutation.op \in AccountReads \cup AccountMutations
  /\ mutation.token = NoToken \/ ~mutation.accepted

AuthenticationMessage ==
  IF mutation.token = NoToken THEN "No token." ELSE "Invalid token."

\* C23 as claimed: for getAccount, getAccountStates, addToWatchlist,
\* addToFavorites and updateRating, when the user access token is missing or
\* rejected by the session exchange, the caller sees an authentication error.
C23_AuthenticationErrorSeen ==
  AuthenticationFailed =>
    /\ mutation.payload.kind = "error"
    /\ mutation.payload.class = "AuthenticationError"

\* C23 as amended: when the token is missing or rejected, getAccount and
\* getAccountStates fail with an AuthenticationError ('No token.' or 'Invalid
\* token.'), which differs in class from the error of a failed upstream call;
\* addToWatchlist, addToFavorites and updateRating return an object without
\* success whose message is that of the AuthenticationError, the form they
\* also return for a failed upstream call.
C23_AuthenticationErrorOfReads ==
  /\ AuthenticationFailed =>
       /\ mutation.op \in AccountReads =>
            mutation.payload = AuthenticationError(AuthenticationMessage)
       /\ mutation.op \in AccountMutations =>
            /\ mutation.result =
                 ResultObject(Absent, AuthenticationMessage, Absent)
            /\ mutation.payload.kind = "object"
  /\ (UpstreamFailed /\ ~AuthenticationFailed /\ mutation.op \in AccountReads) =>
       /\ mutation.payload.kind = "error"
       /\ mutation.payload.class # "AuthenticationError"

\* getAccountStates was called with a token that the exchange rejected.
C23_Witness ==
  /\ AuthenticationFailed
  /\ mutation.op = "getAccountStates"
  /\ mutation.token # NoToken
  /\ mutation.payload.class = "AuthenticationError"

\* The list mutation did not succeed: the upstream call raised, or its reply
\* did not report success.
ListMutationFailed ==
  /\ mutation.pc # "idle"
  /\ mutation.op \in ListMutations
  /\ mutation.upstream.raised \/ ~Bool(mutation.upstream.success)

\* C24: after a list mutation that did not succeed, resolving the list field
\* of its response (ListMutationResponse.list, ListItemsMutationResponse.list)
\* issues no getList request.
C24_NoGetListAfterFailure ==
  (ListMutationFailed /\ mutation.pc = "resolved" /\ mutation.field = "list") =>
    mutationCalls = << >>

\* The method the media field has to call for a media type.
MediaGetter(mediaType) == IF mediaType = TV THEN getShowName ELSE getMovieName

\* C26: for WatchlistMutationResponse, FavoriteMutationResponse and
\* RatingMutationResponse and for MOVIE and TV, resolving media after a
\* successful mutation calls getMovie (MOVIE) or getShow (TV) with the item's
\* id; after an unsuccessful mutation it returns null and calls nothing.
C26_MediaDispatch ==
  (mutation.pc = "resolved" /\ mutation.field = "media") =>
    LET p == mutation.payload
        item == IF mutation.op = "updateRating" THEN p.input ELSE p.item
    IN IF Bool(p.success)
         THEN mutationCalls =
                << [source |-> "movieDatabaseV3",
                    method |-> MediaGetter(item.mediaType), id |-> item.id] >>
         ELSE mutation.value = "null" /\ mutationCalls = << >>

Init(parents, contexts, keys, args, bodies, genreParents) ==
  /\ parent \in parents
  /\ tasks = [t \in 1..MaxTasks |-> IdleTask]
  /\ calls = [t \in 1..MaxTasks |-> << >>]
  /\ context \in contexts
  /\ sessionId = [r \in Requests |-> NoSession]
  /\ keyValueCache = [tok \in Tokens |-> NoSession]
  /\ ops = [r \in Requests |-> [i \in OpSlots |-> IdleOp]]
  /\ issued = [tok \in Tokens |-> 0]
  /\ keyIn \in keys
  /\ keyOut = << >>
  /\ keyBack = << >>
  /\ sortReq = << >>
  /\ argsIn \in args
  /\ argCalls = << >>
  /\ body \in bodies
  /\ returned = << >>
  /\ genreTask \in { IdleGenreTask(p) : p \in genreParents }
  /\ genreCalls = << >>
  /\ mutation = IdleMutation
  /\ mutationCalls = << >>
  /\ httpCache = [url \in Urls |-> NoEntry]
  /\ reads = << >>

ResolverInit ==
  Init(Parents, { NoContext }, { << >> }, { UndefinedValue },
       { NoBody }, { NoGenreParent })
SessionInit ==
  Init({ BareParent }, Contexts, { << >> }, { UndefinedValue },
       { NoBody }, { NoGenreParent })
KeyInit ==
  Init({ BareParent }, { NoContext }, KeyInputs, { UndefinedValue },
       { NoBody }, { NoGenreParent })
SortInit ==
  Init({ BareParent }, { NoContext }, { << >> }, { UndefinedValue },
       { NoBody }, { NoGenreParent })
RespInit ==
  Init({ BareParent }, { NoContext }, { << >> }, { UndefinedValue },
       Bodies, { NoGenreParent })
GenreInit ==
  Init({ BareParent }, { NoContext }, { << >> }, { UndefinedValue },
       { NoBody }, GenreParents)
CacheInit ==
  Init({ BareParent }, { NoContext }, { << >> }, { UndefinedValue },
       { NoBody }, { NoGenreParent })
MutationInit ==
  Init({ BareParent }, { NoContext }, { << >> }, { UndefinedValue },
       { NoBody }, { NoGenreParent })
ArgsInit ==
  Init({ BareParent }, { NoContext }, { << >> }, ArgInputs,
       { NoBody }, { NoGenreParent })

SpecResolver == ResolverInit /\ [][ResolverNext]_vars
SpecSession == SessionInit /\ [][SessionNext]_vars
SpecKey == KeyInit /\ [][KeyNext]_vars
SpecSort == SortInit /\ [][SortNext]_vars
SpecArgs == ArgsInit /\ [][ArgsNext]_vars
SpecResponse == RespInit /\ [][RespNext]_vars
SpecGenres == GenreInit /\ [][GenreNext]_vars
SpecMutation == MutationInit /\ [][MutationNext]_vars
SpecCache == CacheInit /\ [][CacheNext]_vars

====
